---- MODULE Spec2Model ----
(***************************************************************************)
(* A model of the digo dependency-injection container (src/container.go,   *)
(* src/context.go, src/errors.go).  Goroutines ("callers") call the public *)
(* operations; every call is a frame on its caller's stack, and a boot     *)
(* hook that resolves a dependency pushes a nested frame.                  *)
(***************************************************************************)
EXTENDS Integers, Sequences, FiniteSets, TLC

\* ------------------------------------------------------------------ bounds
MaxCalls == 4          \* top-level calls made in one behaviour (sequential use)
MaxConcCalls == 4      \* top-level calls made in one behaviour (two goroutines)
MaxDepth == 7          \* depth of nested resolve calls on one goroutine

\* ------------------------------------------------------------------ universe
Callers == {1, 2}
Types == {"A", "B"}

ScopeTransient == "transient"
ScopeRequest == "request"
ScopeSingleton == "singleton"
Scopes == {ScopeTransient, ScopeRequest, ScopeSingleton}

\* a key that leaves the scope out
typeOnlyKey(scope, serviceType) == "any:" \o serviceType
\* makeBindingKey: string(scope) + ":" + the type's name
makeBindingKey(scope, serviceType) == scope \o ":" \o serviceType

Keys == {makeBindingKey(s, t) : s \in Scopes, t \in Types}

\* ------------------------------------------------------------------ errors
\* An error is the chain its Unwrap method walks, outermost first; nil is <<>>.
NoErr == <<>>
MkErr(kind, arg) == <<[kind |-> kind, arg |-> arg]>>
\* a cause passed on as it is
WrapNone(kind, arg, cause) == cause
Wrap(kind, arg, cause) == MkErr(kind, arg) \o cause
ErrKind(e) == IF e = NoErr THEN "nil" ELSE e[1].kind
\* errors.As: some error of the chain has the kind
ErrorsAs(e, kind) == \E i \in 1..Len(e) : e[i].kind = kind

\* ------------------------------------------------------------------ context
CtxKeys == {"request_id", "key"}
Absent == "absent"          \* the key is not stored
NilVal == "nil"             \* Go's nil interface value
NoValues == [k \in CtxKeys |-> Absent]

\* context.Background(): an external context with no values
Background == NoValues

NilCtx == [isNil |-> TRUE, parent |-> NoValues, values |-> NoValues]

NewContainerContext(parent) ==
    [isNil |-> FALSE, parent |-> parent, values |-> NoValues]

\* a WithValue that keeps the value a key already has
WithValueKeepsOld(c, key, val) ==
    [isNil |-> FALSE, parent |-> c.parent,
     values |-> [c.values EXCEPT ![key] = IF @ = Absent THEN val ELSE @]]
\* WithValue: a new context with the receiver's Context, a copy of its pairs,
\* and the pair stored last
WithValue(c, key, val) ==
    [isNil |-> FALSE, parent |-> c.parent,
     values |-> [c.values EXCEPT ![key] = val]]

\* a lookup that asks the parent first
ValueParentFirst(c, key) ==
    IF c.isNil THEN NilVal
    ELSE IF c.parent[key] # Absent THEN c.parent[key]
    ELSE IF c.values[key] # Absent THEN c.values[key]
    ELSE NilVal
\* Value: nil for a nil receiver, the pair stored locally if there is one, else
\* what the embedded Context returns
Value(c, key) ==
    IF c.isNil THEN NilVal
    ELSE IF c.values[key] # Absent THEN c.values[key]
    ELSE IF c.parent[key] # Absent THEN c.parent[key]
    ELSE NilVal

\* a merge in which the receiver's pairs win
MergeReceiverWins(c, other) ==
    [isNil |-> FALSE, parent |-> c.parent,
     values |-> [k \in CtxKeys |->
                   IF c.values[k] = Absent /\ ~other.isNil
                   THEN other.values[k] ELSE c.values[k]]]
\* MergeWith: a new context on the receiver's Context with the receiver's pairs
\* and then, stored over them, the other's (none when other is nil)
MergeWith(c, other) ==
    [isNil |-> FALSE, parent |-> c.parent,
     values |-> [k \in CtxKeys |->
                   IF (~other.isNil) /\ other.values[k] # Absent
                   THEN other.values[k] ELSE c.values[k]]]

\* a base context that holds a request id of its own
BaseCtxWithID == WithValue(NewContainerContext(Background), "request_id", "base")
\* no context object made yet
NoOp == [name |-> "", recv |-> 0, other |-> 0, key |-> "", val |-> Absent, result |-> Absent]
NoContexts == [heap |-> <<>>, last |-> NoOp]

\* container.ctx, set once by GetContainer
BaseCtx == NewContainerContext(Background)

\* ------------------------------------------------------------------ services
\* The service instances of the model and what their hooks do.
\*   a1, a2, b1  plain services (mock.MockDB)
\*   aF          OnBoot fails (mock.FailingDB{ShouldFail: true})
\*   aX          OnShutdown fails (a Lifecycle whose OnShutdown returns an error)
\*   aD, bD      OnBoot resolves the other type as Transient and returns the
\*               error it gets (mock.CircularImpl1 / CircularImpl2)
\*   aS, bS      the same through ResolveSingleton
\*   aR, bR      the same through ResolveRequest
\* a nil pointer of a service type, (*mock.MockDB)(nil), and the nil interface value
NilService == "nilsvc"
NilInterface == "nilinterface"
Impls == {"a1", "a2", "aF", "aX", "aD", "aS", "aR", "b1", "bD", "bS", "bR"}

ImplType(i) == IF i \in {"a1", "a2", "aF", "aX", "aD", "aS", "aR"} THEN "A" ELSE "B"

\* an assertion that any implementation passes
SatisfiesAny(i, t) == i \in Impls
\* the type assertion  x.(T)
Satisfies(i, t) == i \in Impls /\ ImplType(i) = t

Other(t) == IF t = "A" THEN "B" ELSE "A"

\* OnBoot of instance i: "ok", "fail", or the key it resolves
OnBootDoes(i) ==
    CASE i = "aF" -> <<"fail">>
      [] i \in {"aD", "bD"} -> <<"resolve", ScopeTransient, Other(ImplType(i))>>
      [] i \in {"aS", "bS"} -> <<"resolve", ScopeSingleton, Other(ImplType(i))>>
      [] i \in {"aR", "bR"} -> <<"resolve", ScopeRequest, Other(ImplType(i))>>
      [] OTHER -> <<"ok">>

\* OnShutdown of instance i: "ok" or "fail"
OnShutdownDoes(i) == IF i = "aX" THEN <<"fail">> ELSE <<"ok">>

HookErr == MkErr("hook", "simulated boot failure")

\* predicates: none, one that fails, one that returns nil, or one that returns
\* the instance it names
NeverBound == "never"
NoPred == "none"
PredErr == "err"
PredNil == "nilresult"
\* a predicate that constructs what it returns (return &ProductionService{}, nil):
\* an instance that was not handed out and booted before
PredNew == "new"

\* ------------------------------------------------------------------ state
VARIABLES
    bindings,          \* container.bindings: key -> bindingDefinition
    mu,                \* container.mu: the goroutine holding it exclusively, or 0
    booted,            \* container.booted
    bootOnce,          \* container.bootOnce: its done flag and whether its mutex is held
    crashed,           \* the process died of a panic or a runtime fatal error
    resolutionState,   \* container.resolutionState: goroutine id -> chain (set of keys)
    connected,         \* each instance's own state: its last hook was a good OnBoot
    stack,             \* per goroutine: the calls in progress, innermost last
    ret,               \* per goroutine: the call that returned last
    calls,             \* top-level calls made so far
    gen,               \* history: key -> times the key was bound or removed
    bound,             \* history: key -> the service bound last, or how it was removed
    cached,            \* history: key -> instance a Request/Singleton resolve returned
    bootCount,         \* history: key -> OnBoot calls on its binding since bound/reset
    gate,              \* history: the Boot calls since the last Reset or Shutdown(true)
    contexts           \* the ContainerContext objects a client has made, and (history)
                       \* the last operation on them

vars == <<bindings, mu, booted, bootOnce, crashed, resolutionState, connected, stack,
          ret, calls, gen, bound, cached, bootCount, gate, contexts>>

\* a Once that never fires again
SpentOnce == [done |-> TRUE, locked |-> FALSE]
\* sync.Once{}
NewOnce == [done |-> FALSE, locked |-> FALSE]

\* a Once whose Do goes round again
OnceNotDone == [done |-> FALSE, locked |-> FALSE]
\* the Once after doSlow's deferred done.Store(1) and m.Unlock()
OnceDone == [done |-> TRUE, locked |-> FALSE]

bindingDefinition(scope, concrete, abstract, initialized, ctx, predicate) ==
    [scope |-> scope, concrete |-> concrete, abstract |-> abstract,
     initialized |-> initialized, ctx |-> ctx, predicate |-> predicate]

ZeroBinding == bindingDefinition("", "", "", FALSE, NilCtx, NoPred)
EmptyMap == [k \in {} |-> ZeroBinding]
\* no entry of the resolutionState map for the goroutine
NoState == [present |-> FALSE, chain |-> {}]
NoStates == [id \in {ToString(c) : c \in Callers} |-> NoState]
Zero == "zero"            \* the zero value of T a failed resolve returns
NoInst == "none"

\* history: the call the goroutine made before this one
NoPrev == [op |-> "", key |-> "", val |-> Zero, err |-> NoErr]

\* history: no Reset or Shutdown(true) yet (epoch 0); since the last one no
\* Boot call was made (started), none has run its loop (ran),
\* none has returned nil (ok)
NoGate == [epoch |-> 0, started |-> FALSE, ran |-> FALSE, ok |-> FALSE]

NoRet == [op |-> "", key |-> "", typ |-> "", val |-> Zero, err |-> NoErr,
          hooks |-> <<>>, pre |-> NoInst, fresh |-> FALSE, depth |-> 0,
          b |-> ZeroBinding, clear |-> FALSE, prev |-> NoPrev, at |-> 0,
          snap |-> EmptyMap, seen |-> EmptyMap, worked |-> FALSE, gate0 |-> NoGate,
          gate1 |-> NoGate]

NoSub == [val |-> Zero, err |-> NoErr]

\* A call in progress: the operation, its type parameter and key, where it is
\* (pc), its local variables (b: binding, inst: typed, cur: the key of the
\* binding whose hook it runs, todo: what a loop has yet to visit, snap: the
\* bindings Shutdown collected, clear: Shutdown's argument), what the hook's nested
\* resolve returned (sub); hooks, pre, gen0 and genb are history: the hooks and
\* predicates this call invoked, cached[key] and gen[key] when it started, and
\* gen[key] when it read its copy of the binding.  Of Boot, history too: seen
\* holds each binding as the loop read it, snap the table as it was when the
\* loop began, worked whether the call ran the loop, gate0 the gate when the
\* call was made (a report has gate1 too, the gate when the call returned).
Frame(op, scope, typ) ==
    [op |-> op, key |-> makeBindingKey(scope, typ), typ |-> typ, pc |-> "start",
     cur |-> makeBindingKey(scope, typ), b |-> ZeroBinding, inst |-> NoInst, viaPred |-> FALSE, sub |-> NoSub,
     hooks |-> <<>>,
     pre |-> IF typ \in Types THEN cached[makeBindingKey(scope, typ)] ELSE NoInst,
     gen0 |-> IF typ \in Types THEN gen[makeBindingKey(scope, typ)] ELSE 0,
     genb |-> IF typ \in Types THEN gen[makeBindingKey(scope, typ)] ELSE 0,
     todo |-> {}, snap |-> EmptyMap, clear |-> FALSE, prev |-> NoPrev,
     seen |-> EmptyMap, worked |-> FALSE, gate0 |-> NoGate]

Init ==
    /\ bindings = EmptyMap
    /\ mu = 0
    /\ booted = FALSE
    /\ bootOnce = NewOnce
    /\ crashed = FALSE
    /\ resolutionState = NoStates
    /\ connected = [i \in Impls |-> FALSE]
    /\ stack = [c \in Callers |-> <<>>]
    /\ ret = [c \in Callers |-> NoRet]
    /\ calls = 0
    /\ gen = [k \in Keys |-> 0]
    /\ bound = [k \in Keys |-> NeverBound]
    /\ cached = [k \in Keys |-> NoInst]
    /\ bootCount = [k \in Keys |-> 0]
    /\ gate = NoGate
    /\ contexts = NoContexts

\* ------------------------------------------------------------------ helpers
Top(c) == stack[c][Len(stack[c])]
Idle(c) == stack[c] = <<>>
SetTop(c, f) == [stack EXCEPT ![c][Len(stack[c])] = f]
Push(c, f, g) == [stack EXCEPT ![c] = Append([@ EXCEPT ![Len(@)] = f], g)]

Put(tbl, key, b) == [k \in DOMAIN tbl \cup {key} |-> IF k = key THEN b ELSE tbl[k]]
Drop(tbl, keys) == [k \in DOMAIN tbl \ keys |-> tbl[k]]

\* history: a Reset or a Shutdown(true) has put a new sync.Once in place
Rearmed(g) == [epoch |-> g.epoch + 1, started |-> FALSE, ran |-> FALSE, ok |-> FALSE]

\* history: the keys in ks were bound anew (how: the service) or removed (how:
\* the operation)
Bump(ks, how) ==
    /\ gen' = [k \in Keys |-> IF k \in ks THEN gen[k] + 1 ELSE gen[k]]
    /\ bound' = [k \in Keys |-> IF k \in ks THEN how ELSE bound[k]]
    /\ cached' = [k \in Keys |-> IF k \in ks THEN NoInst ELSE cached[k]]
    /\ bootCount' = [k \in Keys |-> IF k \in ks THEN 0 ELSE bootCount[k]]

\* what a call reports when it returns
Report(c, f, val, err) ==
    [op |-> f.op, key |-> f.key, typ |-> f.typ, val |-> val, err |-> err,
     hooks |-> f.hooks,
     pre |-> IF f.key \in Keys /\ gen[f.key] = f.gen0 THEN f.pre ELSE NoInst,
     fresh |-> f.key \in Keys /\ gen[f.key] = f.gen0,
     depth |-> Len(stack[c]), b |-> f.b, clear |-> f.clear, prev |-> f.prev, at |-> 0,
     snap |-> f.snap, seen |-> f.seen, worked |-> f.worked, gate0 |-> f.gate0,
     gate1 |-> gate]

\* the call on top of c's stack returns (val, err): to the client, or to the
\* hook that made it, whose own call then goes on with the result
Return(c, f, val, err) ==
    /\ stack' = [stack EXCEPT ![c] =
                   IF Len(@) = 1 THEN <<>>
                   ELSE [SubSeq(@, 1, Len(@) - 1) EXCEPT
                           ![Len(@) - 1] = [@ EXCEPT !.sub = [val |-> val, err |-> err],
                                                     !.pc = "hookret"]]]
    /\ ret' = [ret EXCEPT ![c] = Report(c, f, val, err)]

\* ------------------------------------------------------------------ tracker
\* one identity for every goroutine
OneGoroutineID(c) == "1"
\* getGoroutineID: the number of the calling goroutine, in decimal
getGoroutineID(c) == ToString(c)

\* getResolutionState: the entry of the map for the calling goroutine
getResolutionState(rs, c) == rs[getGoroutineID(c)]

\* a tracker that takes every key
startUnchecked(st, key) ==
    [err |-> NoErr, state |-> [present |-> TRUE, chain |-> st.chain \cup {key}]]
\* startResolving: the caller's entry (a fresh, empty one from the pool when the
\* map has none) refuses a key already in its chain
startResolving(st, key) ==
    IF key \in st.chain
    THEN [err |-> MkErr("CircularDependencyError", key), state |-> st]
    ELSE [err |-> NoErr, state |-> [present |-> TRUE, chain |-> st.chain \cup {key}]]

\* a finishResolving that leaves the entry in the map
finishKeepsEntry(st, key) == [present |-> TRUE, chain |-> st.chain \ {key}]
\* getResolutionState + finishResolving: the key leaves the chain; an empty
\* chain takes the entry out of the map and back to the pool
finishResolving(st, key) ==
    IF st.chain \ {key} = {} THEN NoState
    ELSE [present |-> TRUE, chain |-> st.chain \ {key}]

\* a resolve call that had started resolving returns: the deferred
\* finishResolving runs, then the caller gets (val, err)
Finish(c, f, val, err) ==
    /\ resolutionState' = [resolutionState EXCEPT ![getGoroutineID(c)] = finishResolving(@, f.key)]
    /\ Return(c, f, val, err)

\* ------------------------------------------------------------------ bind
\* container.bind, on the table tbl
bind(tbl, service, serviceType, scope, ctx, predicate) ==
    IF service = NilInterface
    THEN \* reflect.ValueOf(nil) is the zero Value, and IsNil panics on it
         [err |-> MkErr("panic", "reflect: call of reflect.Value.IsNil on zero Value"),
          panic |-> TRUE, bindings |-> tbl]
    ELSE IF service = NilService
    THEN [err |-> MkErr("NilServiceError", serviceType), panic |-> FALSE, bindings |-> tbl]
    ELSE LET bindingCtx == MergeWith(IF ctx.isNil THEN BaseCtx ELSE ctx, BaseCtx)
             key == makeBindingKey(scope, serviceType)
         IN [err |-> NoErr, panic |-> FALSE,
             bindings |-> Put(tbl, key,
                 bindingDefinition(scope, service, serviceType, FALSE, bindingCtx, predicate))]

\* history: the instance a binding hands out, its service or its predicate's result
Provides(service, predicate) == IF predicate = NoPred THEN service ELSE predicate

\* BindTransient / BindRequest / BindSingleton: one exclusive section of mu
Bind(c, lim, choices) ==
    /\ ~crashed /\ Idle(c) /\ calls < lim /\ mu = 0
    /\ \E a \in choices :
         LET r == bind(bindings, a.service, a.typ, a.scope, a.ctx, a.predicate)
             key == makeBindingKey(a.scope, a.typ)
         IN /\ bindings' = r.bindings
            /\ crashed' = r.panic
            /\ ret' = [ret EXCEPT ![c] =
                  [NoRet EXCEPT !.op = "Bind", !.key = key, !.typ = a.typ, !.err = r.err,
                                !.val = a.service, !.depth = 1, !.at = calls + 1,
                                !.b = bindingDefinition(a.scope, a.service, a.typ, FALSE,
                                                        a.ctx, a.predicate)]]
            /\ IF r.err = NoErr THEN Bump({key}, Provides(a.service, a.predicate))
               ELSE UNCHANGED <<gen, bound, cached, bootCount>>
    /\ calls' = calls + 1 /\ UNCHANGED contexts
    /\ UNCHANGED <<mu, booted, bootOnce, resolutionState, connected, stack, gate>>

\* ------------------------------------------------------------------ hooks
\* the call f invokes a hook or a predicate of the binding of key f.cur, on
\* the instance i (history)
Logged(f, what, i) == [f EXCEPT !.hooks = Append(@, <<what, i, f.cur>>)]

\* the OnBoot hook of f.inst is over: right away, or when its resolve returned
\* a hook that swallows the error of the resolve it made
HookErrLost(f) ==
    IF f.pc = "hookret" THEN NoErr
    ELSE IF OnBootDoes(f.inst)[1] = "fail" THEN HookErr ELSE NoErr
\* what the OnBoot hook of f.inst returns: the error of the resolve it made, or
\* its own
HookErrOf(f) ==
    IF f.pc = "hookret" THEN f.sub.err
    ELSE IF OnBootDoes(f.inst)[1] = "fail" THEN HookErr ELSE NoErr

OpOfScope(scope) ==
    CASE scope = ScopeTransient -> "ResolveTransient"
      [] scope = ScopeRequest -> "ResolveRequest"
      [] scope = ScopeSingleton -> "ResolveSingleton"

\* history: a good OnBoot of the binding of key as it is bound now
CountBoot(key) ==
    bootCount' = [bootCount EXCEPT ![key] = IF @ < 3 THEN @ + 1 ELSE @]

\* pc = "boot": OnBoot(f.inst) is invoked and resolves a dependency: the hook
\* waits for the nested call
InvokeDependentOnBoot(c, f) ==
    /\ Len(stack[c]) < MaxDepth
    /\ stack' = Push(c, [Logged(f, "OnBoot", f.inst) EXCEPT !.pc = "bootwait"],
                     Frame(OpOfScope(OnBootDoes(f.inst)[2]), OnBootDoes(f.inst)[2],
                           OnBootDoes(f.inst)[3]))
    /\ UNCHANGED <<bindings, mu, booted, bootOnce, crashed, resolutionState, connected,
                   ret, calls, contexts, gate, gen, bound, cached, bootCount>>

\* a boot step that invokes nothing
HookSkipped(f) == f
\* the frame as it is once the hook has been invoked (pc = "boot") or has
\* returned from its nested resolve (pc = "hookret")
AfterHook(f) == IF f.pc = "boot" THEN Logged(f, "OnBoot", f.inst) ELSE f

\* what a finished OnBoot of f.inst leaves: the instance is up if it succeeded
HookEffects(f, ok) ==
    /\ connected' = IF ok THEN [connected EXCEPT ![f.inst] = TRUE] ELSE connected
    /\ IF ok /\ gen[f.cur] = f.genb THEN CountBoot(f.cur) ELSE UNCHANGED bootCount

\* a ContextPredicate called with the binding's context: (result, err)
EvalPredicate(predicate, ctx) ==
    CASE predicate = PredErr -> [result |-> NilService, err |-> MkErr("predicate", "condition not met")]
      [] predicate = PredNil -> [result |-> NilService, err |-> NoErr]
      [] predicate = PredNew -> [result |-> IF connected["a1"] THEN "a2" ELSE "a1", err |-> NoErr]
      [] OTHER -> [result |-> predicate, err |-> NoErr]

\* ------------------------------------------------------------------ ResolveTransient
\* pc = "lookup": the section of ResolveTransient under mu, from the lookup to
\* the Unlock, and the predicate and type assertion that follow it.  The
\* result names the next pc ("boot") or the error returned.
TransientLookup(tbl, f) ==
    IF f.key \notin DOMAIN tbl
    THEN [err |-> MkErr("BindingNotFoundError", f.typ), f |-> f, shut |-> FALSE]
    ELSE
    LET b0 == tbl[f.key]
        shut == b0.initialized
        f1 == IF shut THEN Logged(f, "OnShutdown", b0.concrete) ELSE f
        b == [b0 EXCEPT !.initialized = FALSE]
    IN  IF shut /\ OnShutdownDoes(b0.concrete)[1] = "fail"
        THEN [err |-> Wrap("ShutdownError", f.typ, HookErr), f |-> [f1 EXCEPT !.b = b0, !.genb = gen[f.key]],
              shut |-> FALSE]
        ELSE IF b.predicate # NoPred
        THEN LET p == EvalPredicate(b.predicate, b.ctx)
                 f2 == [Logged(f1, "predicate", b.predicate) EXCEPT !.b = b, !.genb = gen[f.key]]
             IN  IF p.err # NoErr
                 THEN [err |-> Wrap("PredicateError", f.typ, p.err), f |-> f2, shut |-> shut]
                 ELSE IF Satisfies(p.result, f.typ)
                 THEN [err |-> NoErr, shut |-> shut,
                       f |-> [f2 EXCEPT !.inst = p.result, !.viaPred = TRUE, !.pc = "boot"]]
                 ELSE [err |-> Wrap("PredicateError", f.typ,
                                    MkErr("predicate", "predicate returned invalid type")),
                       f |-> f2, shut |-> shut]
        ELSE IF Satisfies(b.concrete, f.typ)
        THEN [err |-> NoErr, shut |-> shut,
              f |-> [f1 EXCEPT !.b = b, !.genb = gen[f.key], !.inst = b.concrete,
                              !.pc = "boot"]]
        ELSE [err |-> MkErr("TypeMismatchError", f.typ), f |-> [f1 EXCEPT !.b = b, !.genb = gen[f.key]], shut |-> shut]

\* pc = "store": the second section under mu, after a good OnBoot
TransientStore(tbl, f) == Put(tbl, f.key, [f.b EXCEPT !.initialized = TRUE])

ResolveTransientStep(c, f) ==
    CASE f.pc = "start" ->
           LET r == startResolving(getResolutionState(resolutionState, c), f.key)
           IN  /\ IF r.err # NoErr
                  THEN Return(c, f, Zero, r.err) /\ UNCHANGED resolutionState
                  ELSE /\ resolutionState' = [resolutionState EXCEPT ![getGoroutineID(c)] = r.state]
                       /\ stack' = SetTop(c, [f EXCEPT !.pc = "lookup"])
                       /\ UNCHANGED ret
               /\ UNCHANGED <<bindings, mu, booted, bootOnce, crashed, connected, calls, contexts, gate,
                              gen, bound, cached, bootCount>>
      [] f.pc = "lookup" ->
           LET r == TransientLookup(bindings, f)
           IN  /\ mu = 0
               /\ connected' = IF r.shut
                               THEN [connected EXCEPT ![bindings[f.key].concrete] = FALSE]
                               ELSE connected
               /\ IF r.err # NoErr
                  THEN Finish(c, r.f, Zero, r.err)
                  ELSE stack' = SetTop(c, r.f) /\ UNCHANGED <<ret, resolutionState>>
               /\ UNCHANGED <<bindings, mu, booted, bootOnce, crashed, calls, contexts, gate, gen, bound, cached,
                              bootCount>>
      [] f.pc = "boot" /\ OnBootDoes(f.inst)[1] = "resolve" ->
           InvokeDependentOnBoot(c, f)
      [] f.pc \in {"boot", "hookret"} /\ ~(f.pc = "boot" /\ OnBootDoes(f.inst)[1] = "resolve") ->
           LET e == HookErrOf(f)
               g == AfterHook(f)
           IN  /\ HookEffects(f, e = NoErr)
               /\ IF e # NoErr
                  THEN Finish(c, g, Zero, Wrap("InitializationError", f.typ, e))
                  ELSE IF f.viaPred
                  THEN Finish(c, g, f.inst, NoErr)
                  ELSE /\ stack' = SetTop(c, [g EXCEPT !.pc = "store"])
                       /\ UNCHANGED <<ret, resolutionState>>
               /\ UNCHANGED <<bindings, mu, booted, bootOnce, crashed, calls, contexts, gate, gen, bound, cached>>
      [] f.pc = "store" ->
           /\ mu = 0
           /\ bindings' = TransientStore(bindings, f)
           /\ Finish(c, f, f.inst, NoErr)
           /\ UNCHANGED <<mu, booted, bootOnce, crashed, connected, calls, contexts, gate, gen, bound, cached,
                          bootCount>>

\* a client calls an operation: the call's frame is the first of its stack
Call(c, lim, f) ==
    /\ ~crashed /\ Idle(c) /\ calls < lim
    /\ stack' = [stack EXCEPT ![c] =
                   <<[f EXCEPT !.prev = [op |-> ret[c].op, key |-> ret[c].key,
                                         val |-> ret[c].val, err |-> ret[c].err],
                              !.gate0 = gate]>>]
    /\ calls' = calls + 1 /\ UNCHANGED contexts
    /\ gate' = IF f.op = "Boot" THEN [gate EXCEPT !.started = TRUE] ELSE gate
    /\ UNCHANGED <<bindings, mu, booted, bootOnce, crashed, resolutionState, connected,
                   ret, gen, bound, cached, bootCount>>

ResolveTransient(c, lim) ==
    \/ \E t \in Types : Call(c, lim, Frame("ResolveTransient", ScopeTransient, t))
    \/ /\ ~crashed /\ ~Idle(c) /\ Top(c).op = "ResolveTransient"
       /\ ResolveTransientStep(c, Top(c))

\* history: a Request or Singleton resolve of the binding as bound now succeeded
Cache(f, val) ==
    cached' = IF gen[f.key] = f.genb THEN [cached EXCEPT ![f.key] = val] ELSE cached

\* ------------------------------------------------------------------ ResolveRequest
\* a check that lets every context through
NeverMissing(ctx) == FALSE
\* binding.ctx.Value("request_id") == nil
MissingRequestID(ctx) == Value(ctx, "request_id") = NilVal

\* pc = "lookup": the section of ResolveRequest under mu's read lock, and the
\* predicate call that follows it.  done: the call returns (val, err); panic:
\* the conversion result.(T) of the predicate's result fails.
RequestLookup(tbl, f) ==
    IF f.key \notin DOMAIN tbl
    THEN [done |-> TRUE, panic |-> FALSE, val |-> Zero,
          err |-> MkErr("BindingNotFoundError", f.typ), f |-> f]
    ELSE
    LET b == tbl[f.key]
        g == [f EXCEPT !.b = b, !.genb = gen[f.key]]
    IN  IF MissingRequestID(b.ctx)
        THEN [done |-> TRUE, panic |-> FALSE, val |-> Zero,
              err |-> MkErr("MissingContextValueError", "request_id"), f |-> g]
        ELSE IF b.initialized
        THEN IF Satisfies(b.concrete, f.typ)
             THEN [done |-> TRUE, panic |-> FALSE, val |-> b.concrete, err |-> NoErr, f |-> g]
             ELSE [done |-> TRUE, panic |-> FALSE, val |-> Zero,
                   err |-> MkErr("TypeMismatchError", f.typ), f |-> g]
        ELSE IF b.predicate # NoPred
        THEN LET p == EvalPredicate(b.predicate, b.ctx)
                 h == Logged(g, "predicate", b.predicate)
             IN  IF p.err # NoErr
                 THEN [done |-> TRUE, panic |-> FALSE, val |-> Zero,
                       err |-> Wrap("PredicateError", f.typ, p.err), f |-> h]
                 ELSE IF ~Satisfies(p.result, f.typ)
                 THEN [done |-> TRUE, panic |-> TRUE, val |-> Zero,
                       err |-> MkErr("panic", "interface conversion"), f |-> h]
                 ELSE [done |-> FALSE, panic |-> FALSE, val |-> Zero, err |-> NoErr,
                       f |-> [h EXCEPT !.b.concrete = p.result, !.inst = p.result,
                                       !.viaPred = TRUE, !.pc = "boot"]]
        ELSE [done |-> FALSE, panic |-> FALSE, val |-> Zero, err |-> NoErr,
              f |-> [g EXCEPT !.inst = b.concrete, !.pc = "boot"]]

\* pc = "store": the section under mu's write lock, after a good OnBoot
RequestStore(tbl, f) == Put(tbl, f.key, [f.b EXCEPT !.initialized = TRUE])

ResolveRequestStep(c, f) ==
    CASE f.pc = "start" ->
           LET r == startResolving(getResolutionState(resolutionState, c), f.key)
           IN  /\ IF r.err # NoErr
                  THEN Return(c, f, Zero, r.err) /\ UNCHANGED resolutionState
                  ELSE /\ resolutionState' = [resolutionState EXCEPT ![getGoroutineID(c)] = r.state]
                       /\ stack' = SetTop(c, [f EXCEPT !.pc = "lookup"])
                       /\ UNCHANGED ret
               /\ UNCHANGED <<bindings, mu, booted, bootOnce, crashed, connected, calls, contexts, gate,
                              gen, bound, cached, bootCount>>
      [] f.pc = "lookup" ->
           LET r == RequestLookup(bindings, f)
           IN  /\ mu = 0
               /\ crashed' = r.panic
               /\ IF r.done
                  THEN Finish(c, r.f, r.val, r.err)
                  ELSE stack' = SetTop(c, r.f) /\ UNCHANGED <<ret, resolutionState>>
               /\ IF r.done /\ r.err = NoErr THEN Cache(r.f, r.val) ELSE UNCHANGED cached
               /\ UNCHANGED <<bindings, mu, booted, bootOnce, connected, calls, contexts, gate, gen, bound,
                              bootCount>>
      [] f.pc = "boot" /\ OnBootDoes(f.inst)[1] = "resolve" ->
           InvokeDependentOnBoot(c, f)
      [] f.pc \in {"boot", "hookret"} /\ ~(f.pc = "boot" /\ OnBootDoes(f.inst)[1] = "resolve") ->
           LET e == HookErrOf(f)
               g == AfterHook(f)
           IN  /\ HookEffects(f, e = NoErr)
               /\ IF e # NoErr
                  THEN Finish(c, g, Zero, Wrap("InitializationError", f.typ, e))
                  ELSE /\ stack' = SetTop(c, [g EXCEPT !.pc = "store"])
                       /\ UNCHANGED <<ret, resolutionState>>
               /\ UNCHANGED <<bindings, mu, booted, bootOnce, crashed, calls, contexts, gate, gen, bound, cached>>
      [] f.pc = "store" ->
           /\ mu = 0
           /\ bindings' = RequestStore(bindings, f)
           /\ Finish(c, f, f.b.concrete, NoErr)
           /\ Cache(f, f.b.concrete)
           /\ UNCHANGED <<mu, booted, bootOnce, crashed, connected, calls, contexts, gate, gen, bound, bootCount>>

ResolveRequest(c, lim) ==
    \/ \E t \in Types : Call(c, lim, Frame("ResolveRequest", ScopeRequest, t))
    \/ /\ ~crashed /\ ~Idle(c) /\ Top(c).op = "ResolveRequest"
       /\ ResolveRequestStep(c, Top(c))

\* ------------------------------------------------------------------ ResolveSingleton
\* pc = "start": the lookup under mu's read lock, startResolving, and the
\* check of the initialized flag of the copy read
SingletonLookup(tbl, st, f) ==
    IF f.key \notin DOMAIN tbl
    THEN [done |-> TRUE, started |-> FALSE, val |-> Zero,
          err |-> MkErr("BindingNotFoundError", f.typ), f |-> f, state |-> st]
    ELSE
    LET b == tbl[f.key]
        g == [f EXCEPT !.b = b, !.genb = gen[f.key]]
        r == startResolving(st, f.key)
    IN  IF r.err # NoErr
        THEN [done |-> TRUE, started |-> FALSE, val |-> Zero, err |-> r.err, f |-> g,
              state |-> st]
        ELSE IF b.initialized
        THEN IF Satisfies(b.concrete, f.typ)
             THEN [done |-> TRUE, started |-> TRUE, val |-> b.concrete, err |-> NoErr,
                   f |-> g, state |-> r.state]
             ELSE [done |-> TRUE, started |-> TRUE, val |-> Zero,
                   err |-> MkErr("TypeMismatchError", f.typ), f |-> g, state |-> r.state]
        ELSE [done |-> FALSE, started |-> TRUE, val |-> Zero, err |-> NoErr,
              f |-> [g EXCEPT !.inst = b.concrete, !.pc = "boot"], state |-> r.state]

\* the call's next step reads or writes the bindings map
AccessesTable(f) ==
    \/ f.op \in {"ResolveTransient", "ResolveRequest"} /\ f.pc \in {"lookup", "store"}
    \/ f.op = "ResolveSingleton" /\ f.pc \in {"start", "boot", "hookret"}
    \/ f.op = "Boot" /\ f.pc \in {"lock", "iter"}
    \/ f.op = "Shutdown" /\ f.pc \in {"start", "iter"}

\* ResolveSingleton writes the map holding no lock: when another goroutine is
\* at a map access, the write either goes through or the runtime stops the
\* program (fatal error: concurrent map writes / map read and map write)
UnlockedWriteCrashes(c) ==
    IF \E d \in Callers \ {c} : ~Idle(d) /\ AccessesTable(Top(d))
    THEN BOOLEAN ELSE {FALSE}

\* after a good OnBoot: the write of the table, which takes no lock
SingletonStore(tbl, f) == Put(tbl, f.key, [f.b EXCEPT !.initialized = TRUE])

ResolveSingletonStep(c, f) ==
    CASE f.pc = "start" ->
           LET r == SingletonLookup(bindings, getResolutionState(resolutionState, c), f)
           IN  /\ mu = 0
               /\ IF r.done
                  THEN /\ Return(c, r.f, r.val, r.err)
                       /\ resolutionState' = [resolutionState EXCEPT ![getGoroutineID(c)] =
                              IF r.started THEN finishResolving(r.state, f.key) ELSE @]
                  ELSE /\ stack' = SetTop(c, r.f)
                       /\ resolutionState' = [resolutionState EXCEPT ![getGoroutineID(c)] = r.state]
                       /\ UNCHANGED ret
               /\ IF r.done /\ r.err = NoErr THEN Cache(r.f, r.val) ELSE UNCHANGED cached
               /\ UNCHANGED <<bindings, mu, booted, bootOnce, crashed, connected, calls, contexts, gate,
                              gen, bound, bootCount>>
      [] f.pc = "boot" /\ OnBootDoes(f.inst)[1] = "resolve" ->
           InvokeDependentOnBoot(c, f)
      [] f.pc \in {"boot", "hookret"} /\ ~(f.pc = "boot" /\ OnBootDoes(f.inst)[1] = "resolve") ->
           LET e == HookErrOf(f)
               g == AfterHook(f)
           IN  /\ HookEffects(f, e = NoErr)
               /\ IF e # NoErr
                  THEN /\ Finish(c, g, Zero, Wrap("InitializationError", f.typ, e))
                       /\ UNCHANGED <<bindings, cached, crashed>>
                  ELSE /\ bindings' = SingletonStore(bindings, f)
                       /\ crashed' \in UnlockedWriteCrashes(c)
                       /\ Finish(c, g, f.b.concrete, NoErr)
                       /\ Cache(f, f.b.concrete)
               /\ UNCHANGED <<mu, booted, bootOnce, calls, contexts, gate, gen, bound>>

ResolveSingleton(c, lim) ==
    \/ \E t \in Types : Call(c, lim, Frame("ResolveSingleton", ScopeSingleton, t))
    \/ /\ ~crashed /\ ~Idle(c) /\ Top(c).op = "ResolveSingleton"
       /\ ResolveSingletonStep(c, Top(c))

\* ------------------------------------------------------------------ Boot
\* a loop that boots whatever it finds
BootVisitsAll(b) == TRUE
\* does Boot's loop call OnBoot for the binding
BootVisits(b) ==
    \/ (~b.initialized) /\ b.scope = ScopeSingleton
    \/ b.scope = ScopeRequest

\* an end of the loop that keeps mu
BootKeepsLock(c, f, err) ==
    /\ mu' = mu
    /\ stack' = SetTop(c, [f EXCEPT !.pc = "oncedone", !.sub = [val |-> Zero, err |-> err],
                                    !.todo = {}])
\* the end of Boot's loop (all visited, or a hook failed): mu is released
BootUnlock(c, f, err) ==
    /\ mu' = 0
    /\ stack' = SetTop(c, [f EXCEPT !.pc = "oncedone", !.sub = [val |-> Zero, err |-> err],
                                    !.todo = {}])

BootStep(c, f) ==
    CASE f.pc = "start" ->
           \* bootOnce.Do: nothing to do once done; else take the Once's mutex
           /\ IF bootOnce.done
              THEN /\ Return(c, f, Zero, NoErr)
                   /\ gate' = [gate EXCEPT !.ok = TRUE]
                   /\ UNCHANGED bootOnce
              ELSE /\ ~bootOnce.locked
                   /\ bootOnce' = [bootOnce EXCEPT !.locked = TRUE]
                   /\ stack' = SetTop(c, [f EXCEPT !.pc = "lock"])
                   /\ UNCHANGED <<ret, gate>>
           /\ UNCHANGED <<bindings, mu, booted, crashed, resolutionState, connected, calls, contexts,
                          gen, bound, cached, bootCount>>
      [] f.pc = "lock" /\ bootOnce.done ->
           \* doSlow holds the Once's mutex and reads done again: set meanwhile,
           \* it skips the function; the deferred Unlock (fatal on a mutex that
           \* is not locked), and Boot returns nil
           /\ bootOnce' = [bootOnce EXCEPT !.locked = FALSE]
           /\ crashed' = ~bootOnce.locked
           /\ IF bootOnce.locked
              THEN Return(c, f, Zero, NoErr) /\ gate' = [gate EXCEPT !.ok = TRUE]
              ELSE UNCHANGED <<stack, ret, gate>>
           /\ UNCHANGED <<bindings, mu, booted, resolutionState, connected, calls, contexts, gen, bound,
                          cached, bootCount>>
      [] f.pc = "lock" /\ ~bootOnce.done ->
           /\ mu = 0
           /\ IF booted
              THEN stack' = SetTop(c, [f EXCEPT !.pc = "oncedone"]) /\ UNCHANGED <<mu, gate>>
              ELSE /\ stack' = SetTop(c, [f EXCEPT !.pc = "iter", !.todo = DOMAIN bindings,
                                                   !.snap = bindings, !.worked = TRUE])
                   /\ mu' = c
                   /\ gate' = [gate EXCEPT !.ran = TRUE]
           /\ UNCHANGED <<bindings, booted, bootOnce, crashed, resolutionState, connected,
                          ret, calls, contexts, gen, bound, cached, bootCount>>
      [] f.pc = "iter" /\ f.todo = {} ->
           /\ BootUnlock(c, f, NoErr)
           /\ UNCHANGED <<bindings, booted, bootOnce, crashed, resolutionState, connected,
                          ret, calls, contexts, gate, gen, bound, cached, bootCount>>
      [] f.pc = "iter" /\ f.todo # {} ->
           \* the loop visits the bindings in any order; it changes only its
           \* own copy of a binding, never the table
           \E k \in f.todo :
             LET b == bindings[k]
                 g == [f EXCEPT !.todo = @ \ {k}, !.cur = k, !.b = b, !.inst = b.concrete,
                                !.seen = Put(@, k, b)]
             IN  IF ~BootVisits(b)
                 THEN /\ stack' = SetTop(c, g)
                      /\ UNCHANGED <<bindings, mu, booted, bootOnce, crashed,
                                     resolutionState, connected, ret, calls, contexts, gate, gen, bound, cached,
                                     bootCount>>
                 ELSE IF OnBootDoes(b.concrete)[1] = "resolve"
                 THEN InvokeDependentOnBoot(c, [g EXCEPT !.pc = "boot"])
                 ELSE /\ IF OnBootDoes(b.concrete)[1] = "fail"
                         THEN /\ BootUnlock(c, Logged(g, "OnBoot", b.concrete), HookErr)
                              /\ UNCHANGED <<connected, bootCount>>
                         ELSE /\ stack' = SetTop(c, Logged(g, "OnBoot", b.concrete))
                              /\ connected' = [connected EXCEPT ![b.concrete] = TRUE]
                              /\ CountBoot(k)
                              /\ UNCHANGED mu
                      /\ UNCHANGED <<bindings, booted, bootOnce, crashed, resolutionState,
                                     ret, calls, contexts, gate, gen, bound, cached>>
      [] f.pc = "hookret" ->
           /\ IF f.sub.err # NoErr
              THEN BootUnlock(c, f, f.sub.err) /\ UNCHANGED <<connected, bootCount>>
              ELSE /\ stack' = SetTop(c, [f EXCEPT !.pc = "iter"])
                   /\ connected' = [connected EXCEPT ![f.inst] = TRUE]
                   /\ CountBoot(f.cur)
                   /\ UNCHANGED mu
           /\ UNCHANGED <<bindings, booted, bootOnce, crashed, resolutionState, ret, calls, contexts, gate,
                          gen, bound, cached>>
      [] f.pc = "oncedone" ->
           \* Do's deferred done.Store(1) and Unlock of the Once's mutex (fatal
           \* on a mutex that is not locked), on whatever Once the field holds
           \* now; then Boot returns bootErr
           /\ bootOnce' = OnceDone
           /\ crashed' = ~bootOnce.locked
           /\ IF bootOnce.locked
              THEN /\ Return(c, f, Zero, f.sub.err)
                   /\ gate' = IF f.sub.err = NoErr THEN [gate EXCEPT !.ok = TRUE] ELSE gate
              ELSE UNCHANGED <<stack, ret, gate>>
           /\ UNCHANGED <<bindings, mu, booted, resolutionState, connected, calls, contexts, gen, bound,
                          cached, bootCount>>

Boot(c, lim) ==
    \/ Call(c, lim, Frame("Boot", "", ""))
    \/ /\ ~crashed /\ ~Idle(c) /\ Top(c).op = "Boot"
       /\ BootStep(c, Top(c))

\* ------------------------------------------------------------------ Shutdown
\* a collection that takes every binding
toShutdownAll(tbl, clearSingletons) == DOMAIN tbl
\* the bindings Shutdown collects
toShutdown(tbl, clearSingletons) ==
    {k \in DOMAIN tbl : tbl[k].scope # ScopeSingleton \/ clearSingletons}

AllKeys == Keys

ShutdownStep(c, f) ==
    CASE f.pc = "start" ->
           /\ mu = 0
           /\ mu' = c
           /\ stack' = SetTop(c, [f EXCEPT !.pc = "iter", !.snap = bindings,
                                           !.todo = toShutdown(bindings, f.clear)])
           /\ UNCHANGED <<bindings, booted, bootOnce, crashed, resolutionState, connected,
                          ret, calls, contexts, gate, gen, bound, cached, bootCount>>
      [] f.pc = "iter" /\ f.todo # {} ->
           \E k \in f.todo :
             LET b == f.snap[k]
                 g == Logged([f EXCEPT !.todo = @ \ {k}, !.cur = k], "OnShutdown", b.concrete)
             IN  /\ IF OnShutdownDoes(b.concrete)[1] = "fail"
                    THEN /\ mu' = 0
                         /\ Return(c, g, Zero, Wrap("ShutdownError", b.concrete, HookErr))
                         /\ UNCHANGED connected
                    ELSE /\ stack' = SetTop(c, g)
                         /\ connected' = [connected EXCEPT ![b.concrete] = FALSE]
                         /\ UNCHANGED <<mu, ret>>
                 /\ UNCHANGED <<bindings, booted, bootOnce, crashed, resolutionState, calls, contexts, gate,
                                gen, bound, cached, bootCount>>
      [] f.pc = "iter" /\ f.todo = {} ->
           /\ IF f.clear
              THEN /\ bindings' = EmptyMap
                   /\ booted' = FALSE
                   /\ bootOnce' = NewOnce
                   /\ resolutionState' = NoStates
                   /\ Bump(AllKeys, "Shutdown(true)")
                   /\ gate' = Rearmed(gate)
              ELSE /\ bindings' = Drop(bindings,
                                       {k \in DOMAIN bindings : bindings[k].scope # ScopeSingleton})
                   /\ Bump({k \in DOMAIN bindings : bindings[k].scope # ScopeSingleton},
                           "Shutdown(false)")
                   /\ UNCHANGED <<booted, bootOnce, resolutionState, gate>>
           /\ mu' = 0
           /\ Return(c, f, Zero, NoErr)
           /\ UNCHANGED <<crashed, connected, calls, contexts>>

Shutdown(c, lim) ==
    \/ \E clearSingletons \in BOOLEAN :
         Call(c, lim, [Frame("Shutdown", "", "") EXCEPT !.clear = clearSingletons])
    \/ /\ ~crashed /\ ~Idle(c) /\ Top(c).op = "Shutdown"
       /\ ShutdownStep(c, Top(c))

\* ------------------------------------------------------------------ Reset
Reset(c, lim) ==
    /\ ~crashed /\ Idle(c) /\ calls < lim /\ mu = 0
    /\ bindings' = EmptyMap
    /\ resolutionState' = NoStates
    /\ booted' = FALSE
    /\ bootOnce' = NewOnce
    /\ Bump(AllKeys, "Reset")
    /\ gate' = Rearmed(gate)
    /\ ret' = [ret EXCEPT ![c] = [NoRet EXCEPT !.op = "Reset", !.depth = 1, !.at = calls + 1]]
    /\ calls' = calls + 1 /\ UNCHANGED contexts
    /\ UNCHANGED <<mu, crashed, connected, stack>>

\* ------------------------------------------------------------------ inputs
CtxPlain == NewContainerContext(Background)
CtxRequest == WithValue(NewContainerContext(Background), "request_id", "req-1")
CtxInherited == NewContainerContext([Background EXCEPT !["request_id"] = "req-0"])
CtxNilValue == WithValue(NewContainerContext(Background), "request_id", NilVal)

\* the calls  Bind<scope>[T](service, ctx, predicate)  over the given values;
\* BindSingleton takes no predicate, and a service given for T satisfies T
\* (or is T's nil)
BindCalls(scopes, services, ctxs, predicates) ==
    {[scope |-> sc, typ |-> t, service |-> i, ctx |-> x, predicate |-> p] :
        sc \in scopes, t \in Types, i \in services, x \in ctxs, p \in predicates}

WellTyped(a) ==
    /\ a.service \in {NilService, NilInterface} \/ Satisfies(a.service, a.typ)
    /\ a.scope = ScopeSingleton => a.predicate = NoPred

\* ------------------------------------------------------------------ specifications
\* One goroutine binding and resolving Transient services, with and without
\* predicates.
TransientBinds ==
    {a \in BindCalls({ScopeTransient}, {"a1", "a2", "aF", "aD", "bD", "b1"}, {CtxPlain},
                     {NoPred, "a1", PredErr}) : WellTyped(a)}

NextTransientSeq ==
    \/ Bind(1, MaxCalls, TransientBinds)
    \/ ResolveTransient(1, MaxCalls)

SpecTransientSeq == Init /\ [][NextTransientSeq]_vars

\* has the call on top of c's stack just returned
Returns(c) == Len(stack'[c]) < Len(stack[c])
Returned(c, op) == Returns(c) /\ ret'[c].op = op

\* goroutine c makes a bind call, which returns in the same step
Binds(c) == ret'[c].op = "Bind" /\ ret'[c].at = calls' /\ calls' # calls

\* the lifecycle hooks among what a call invoked
IsHook(e) == e[1] # "predicate"
Lifecycle(hooks) == SelectSeq(hooks, IsHook)

\* has goroutine c's last call followed a good call of op on the same key
Follows(r, op) == r.prev.op = op /\ r.prev.key = r.key /\ r.prev.err = NoErr

\* C2: a good ResolveTransient that follows a good ResolveTransient of the same
\* service by the same caller returns the same instance after invoking
\* OnShutdown and then OnBoot on it; the first one after the bind invokes OnBoot.
C2_TransientLifecycle ==
    \A c \in Callers :
      LET r == ret[c] IN
      (r.op = "ResolveTransient" /\ r.depth = 1 /\ r.err = NoErr) =>
        /\ Follows(r, "ResolveTransient") =>
             /\ r.val = r.prev.val
             /\ Lifecycle(r.hooks) = << <<"OnShutdown", r.val, r.key>>, <<"OnBoot", r.val, r.key>> >>
        /\ Follows(r, "Bind") => Lifecycle(r.hooks) = << <<"OnBoot", r.val, r.key>> >>

\* the same for the bindings that have no predicate
C2_NoPredicate ==
    \A c \in Callers :
      LET r == ret[c] IN
      (r.op = "ResolveTransient" /\ r.depth = 1 /\ r.err = NoErr
         /\ r.b.predicate = NoPred) =>
        /\ Follows(r, "ResolveTransient") =>
             /\ r.val = r.prev.val
             /\ Lifecycle(r.hooks) = << <<"OnShutdown", r.val, r.key>>, <<"OnBoot", r.val, r.key>> >>
        /\ Follows(r, "Bind") => Lifecycle(r.hooks) = << <<"OnBoot", r.val, r.key>> >>

\* ServiceA and ServiceB are bound Transient, each one's OnBoot resolving the other
MutualTransient ==
    /\ makeBindingKey(ScopeTransient, "A") \in DOMAIN bindings
    /\ makeBindingKey(ScopeTransient, "B") \in DOMAIN bindings
    /\ bindings[makeBindingKey(ScopeTransient, "A")].concrete = "aD"
    /\ bindings[makeBindingKey(ScopeTransient, "B")].concrete = "bD"
    /\ bindings[makeBindingKey(ScopeTransient, "A")].predicate = NoPred
    /\ bindings[makeBindingKey(ScopeTransient, "B")].predicate = NoPred

\* goroutine c's last call was a client's ResolveTransient of ServiceA
ResolvedA(c) ==
    /\ ret[c].op = "ResolveTransient" /\ ret[c].depth = 1 /\ ret[c].typ = "A"
    /\ Idle(c)

\* C7 as stated: with A and B bound Transient and booting each other, the
\* error ResolveTransient of A returns is a CircularDependencyError.
C7_ReturnsCircular ==
    \A c \in Callers :
      (ResolvedA(c) /\ MutualTransient) => ErrKind(ret[c].err) = "CircularDependencyError"

\* C7 amended: the error returned is the InitializationError of A, which wraps
\* the InitializationError of B, which wraps the CircularDependencyError that
\* names A's key; the value returned is the zero value.
C7_ReturnsWrappedCircular ==
    \A c \in Callers :
      (ResolvedA(c) /\ MutualTransient) =>
        /\ ret[c].val = Zero
        /\ ret[c].err = << [kind |-> "InitializationError", arg |-> "A"],
                            [kind |-> "InitializationError", arg |-> "B"],
                            [kind |-> "CircularDependencyError", arg |-> "transient:A"] >>
        /\ ErrorsAs(ret[c].err, "CircularDependencyError")

C7_Witness ==
    /\ ResolvedA(1) /\ MutualTransient
    /\ ErrorsAs(ret[1].err, "CircularDependencyError")
    /\ Len(ret[1].hooks) > 0

\* Two goroutines resolving Request services while the second one binds them,
\* with and without a request_id in the bound context.
MaxRaceCalls == 5

RequestBinds ==
    {a \in BindCalls({ScopeRequest}, {"a1", "a2"}, {CtxRequest}, {NoPred}) : a.typ = "A"}
    \cup {a \in BindCalls({ScopeRequest}, {"a1"}, {CtxPlain, CtxInherited, CtxNilValue},
                          {NoPred, "a2"}) : a.typ = "A"}
    \cup {a \in BindCalls({ScopeRequest}, {"aF"}, {CtxRequest}, {NoPred, PredErr, "b1"}) :
            a.typ = "A"}

NextRequest ==
    \/ Bind(2, MaxRaceCalls, RequestBinds)
    \/ ResolveRequest(1, MaxRaceCalls)
    \/ ResolveRequest(2, MaxRaceCalls)

SpecRequest == Init /\ [][NextRequest]_vars

\* the context holds no request_id, neither in its own values nor in its parent
CarriesNoRequestID(ctx) ==
    /\ ctx.values["request_id"] \in {Absent, NilVal}
    /\ ctx.parent["request_id"] \in {Absent, NilVal}

\* C3: once a ResolveRequest of a binding has succeeded, a ResolveRequest called
\* later on the same binding (not re-bound or removed since) returns the same
\* instance and invokes no OnBoot, no OnShutdown and no predicate.
C3_RequestInstanceShared ==
    \A c \in Callers :
      (ret[c].op = "ResolveRequest" /\ ret[c].pre # NoInst) =>
        /\ ret[c].err = NoErr
        /\ ret[c].val = ret[c].pre
        /\ ret[c].hooks = <<>>

\* C4: a ResolveRequest that finds a Request binding whose context carries no
\* request_id fails with MissingContextValueError{Key: "request_id"}, having
\* invoked no predicate and no hook, and the binding table is as it was.
C4_MissingRequestID ==
    [][\A c \in Callers :
         (/\ Returned(c, "ResolveRequest")
          /\ ret'[c].b.scope = ScopeRequest
          /\ CarriesNoRequestID(ret'[c].b.ctx)) =>
            /\ ret'[c].err = MkErr("MissingContextValueError", "request_id")
            /\ ret'[c].val = Zero
            /\ ret'[c].hooks = <<>>
            /\ bindings' = bindings
            /\ connected' = connected]_vars

C4_Witness ==
    \E c \in Callers :
      /\ ret[c].op = "ResolveRequest" /\ ret[c].b.scope = ScopeRequest
      /\ CarriesNoRequestID(ret[c].b.ctx)
      /\ ret[c].b.predicate # NoPred
      /\ ErrKind(ret[c].err) = "MissingContextValueError"

\* One goroutine binding Singleton services, booting the container, resolving
\* and shutting down.
SingletonBinds ==
    {a \in BindCalls({ScopeSingleton}, {"a1", "aF", "b1"}, {CtxPlain}, {NoPred}) :
       WellTyped(a)}

NextSingletonSeq ==
    \/ Bind(1, MaxCalls, SingletonBinds)
    \/ Boot(1, MaxCalls)
    \/ ResolveSingleton(1, MaxCalls)
    \/ Shutdown(1, MaxCalls)

SpecSingletonSeq == Init /\ [][NextSingletonSeq]_vars

SingletonKeys == {makeBindingKey(ScopeSingleton, t) : t \in Types}

\* C5: a Singleton binding has OnBoot invoked on it at most once between its
\* bind and the next Reset or Shutdown(true), whatever Boot, ResolveSingleton
\* and Shutdown(false) calls are made.
C5_SingletonBootedOnce ==
    \A k \in SingletonKeys : bootCount[k] <= 1

\* Two goroutines resolving Singleton services while the second one binds them.
SingletonRaceBinds ==
    {a \in BindCalls({ScopeSingleton}, {"a1", "a2", "aF"}, {CtxPlain}, {NoPred}) : a.typ = "A"}

NextSingleton ==
    \/ Bind(2, MaxRaceCalls, SingletonRaceBinds)
    \/ ResolveSingleton(1, MaxRaceCalls)
    \/ ResolveSingleton(2, MaxRaceCalls)

SpecSingleton == Init /\ [][NextSingleton]_vars

\* C6: once a ResolveSingleton of a bound Singleton has succeeded, every
\* ResolveSingleton of it called afterwards, concurrent ones included, returns
\* that same instance and invokes no OnBoot.
C6_SingletonInstanceShared ==
    \A c \in Callers :
      (ret[c].op = "ResolveSingleton" /\ ret[c].pre # NoInst) =>
        /\ ret[c].err = NoErr
        /\ ret[c].val = ret[c].pre
        /\ ret[c].hooks = <<>>

\* One goroutine binding services whose OnBoot hooks resolve each other, through
\* any of the three scopes, and resolving them.  A goroutine that is in a call
\* keeps running: the scheduler does not starve a runnable goroutine.
MaxCycleCalls == 4

CycleBinds ==
    {a \in BindCalls({ScopeTransient}, {"aD", "bD", "bS", "b1"}, {CtxPlain}, {NoPred}) :
       WellTyped(a)}
    \cup {a \in BindCalls({ScopeSingleton}, {"aS", "bS", "aD"}, {CtxPlain}, {NoPred}) :
            WellTyped(a)}
    \cup {a \in BindCalls({ScopeRequest}, {"aR", "bR", "aD"}, {CtxRequest}, {NoPred}) :
            WellTyped(a)}

Running(c) ==
    /\ ~crashed /\ ~Idle(c)
    /\ \/ Top(c).op = "ResolveTransient" /\ ResolveTransientStep(c, Top(c))
       \/ Top(c).op = "ResolveRequest" /\ ResolveRequestStep(c, Top(c))
       \/ Top(c).op = "ResolveSingleton" /\ ResolveSingletonStep(c, Top(c))

NextCycleSeq ==
    \/ Bind(1, MaxCycleCalls, CycleBinds)
    \/ ResolveTransient(1, MaxCycleCalls)
    \/ ResolveRequest(1, MaxCycleCalls)
    \/ ResolveSingleton(1, MaxCycleCalls)

SpecCycleSeq == Init /\ [][NextCycleSeq]_vars /\ WF_vars(Running(1))

ResolveOps == {"ResolveTransient", "ResolveRequest", "ResolveSingleton"}

\* the keys that goroutine c is resolving: those of the calls on its stack
InFlight(c) == {stack[c][i].key : i \in {j \in 1..Len(stack[c]) : stack[c][j].op \in ResolveOps}}

\* goroutine c begins a resolve of a key that its tracker entry already holds
Reenters(c) ==
    /\ ~Idle(c) /\ Top(c).op \in ResolveOps /\ Top(c).pc = "start"
    /\ Top(c).key \in getResolutionState(resolutionState, c).chain
    /\ stack'[c] # stack[c]

\* C8: a resolve of a key already in the caller's in-flight set returns at once
\* CircularDependencyError naming the key, invokes no hook and no predicate and
\* leaves the in-flight set, the table and the instances as they were; and
\* every call made returns: no chain of boot hooks resolving each other, through
\* whatever scopes, goes on for ever or blocks.
C8_CycleRejected ==
    /\ [][\A c \in Callers :
            Reenters(c) =>
              /\ Returns(c)
              /\ ret'[c].err = MkErr("CircularDependencyError", Top(c).key)
              /\ ret'[c].val = Zero
              /\ ret'[c].hooks = <<>>
              /\ resolutionState' = resolutionState
              /\ bindings' = bindings
              /\ connected' = connected]_vars
    /\ \A c \in Callers : (~Idle(c)) ~> Idle(c)

C8_Witness ==
    /\ ret[1].op \in ResolveOps /\ ret[1].depth = 4
    /\ ret[1].err = MkErr("CircularDependencyError", ret[1].key)
    /\ Len(stack[1]) = 3

\* Two goroutines resolving services whose OnBoot hooks resolve each other,
\* the second one binding them.
CycleRaceBinds ==
    {a \in BindCalls({ScopeTransient}, {"aD", "bD", "b1"}, {CtxPlain}, {NoPred}) : WellTyped(a)}

NextCycle ==
    \/ Bind(2, MaxConcCalls, CycleRaceBinds)
    \/ ResolveTransient(1, MaxConcCalls)
    \/ ResolveTransient(2, MaxConcCalls)

SpecCycle == Init /\ [][NextCycle]_vars

\* C9: a call returns CircularDependencyError itself (not wrapped) only for a
\* key that an enclosing call of the same goroutine is resolving; what another
\* goroutine is resolving never makes a call fail so, and a client's own call
\* never fails so.
C9_CyclePerCaller ==
    [][\A c \in Callers :
         (Returns(c) /\ ErrKind(ret'[c].err) = "CircularDependencyError") =>
            /\ Len(stack[c]) > 1
            /\ \E i \in 1..(Len(stack[c]) - 1) :
                 /\ stack[c][i].op \in ResolveOps
                 /\ stack[c][i].key = ret'[c].err[1].arg]_vars

\* both goroutines are resolving the same key, and one of them is already
\* inside its boot hook's nested resolve
C9_Witness ==
    /\ InFlight(1) \cap InFlight(2) # {}
    /\ Len(stack[1]) > 1
    /\ Top(1).pc # "start" /\ Top(2).pc # "start"

\* Two goroutines: the first resolves in the three scopes, the second binds,
\* shuts the container down and resolves.
LifecycleBinds ==
    {a \in BindCalls(Scopes, {"a1", "a2"}, {CtxRequest}, {NoPred, "a1"}) :
       WellTyped(a) /\ (a.predicate # NoPred => a.service = "a2")}

NextLifecycle ==
    \/ Bind(2, MaxConcCalls, LifecycleBinds)
    \/ Shutdown(2, MaxConcCalls)
    \/ ResolveTransient(1, MaxConcCalls)
    \/ ResolveRequest(1, MaxConcCalls)
    \/ ResolveSingleton(1, MaxConcCalls)
    \/ ResolveTransient(2, MaxConcCalls)
    \/ ResolveRequest(2, MaxConcCalls)
    \/ ResolveSingleton(2, MaxConcCalls)

SpecLifecycle == Init /\ [][NextLifecycle]_vars

\* C1: the table holds one binding per (scope, type); a good bind puts its
\* implementation, context and predicate there with initialized false, leaving
\* the other pairs alone; and a good resolve of a pair that was bound before
\* the call and not bound or removed since returns the instance of the binding
\* bound last, booted since that bind.
C1_LastBindWins ==
    [][\A c \in Callers :
         /\ (Binds(c) /\ ret'[c].err = NoErr) =>
              /\ DOMAIN bindings' = DOMAIN bindings \cup {ret'[c].key}
              /\ \A k \in DOMAIN bindings \ {ret'[c].key} : bindings'[k] = bindings[k]
              /\ bindings'[ret'[c].key].concrete = ret'[c].b.concrete
              /\ bindings'[ret'[c].key].predicate = ret'[c].b.predicate
              /\ bindings'[ret'[c].key].ctx.values = ret'[c].b.ctx.values
              /\ bindings'[ret'[c].key].ctx.parent = ret'[c].b.ctx.parent
              /\ bindings'[ret'[c].key].initialized = FALSE
         /\ (/\ Returns(c) /\ ret'[c].op \in ResolveOps
             /\ ret'[c].err = NoErr /\ ret'[c].fresh) =>
              /\ ret'[c].val = bound[ret'[c].key]
              /\ bootCount'[ret'[c].key] >= 1]_vars

\* C10: a resolve called after a good Shutdown(true), with no bind of its
\* (scope, type) since, fails with BindingNotFoundError.
C10_NotFoundAfterClear ==
    [][\A c \in Callers :
         (/\ Returns(c) /\ ret'[c].op \in ResolveOps
          /\ ret'[c].fresh /\ bound[ret'[c].key] = "Shutdown(true)") =>
            ret'[c].err = MkErr("BindingNotFoundError", ret'[c].typ)]_vars

\* has goroutine c's Shutdown(false) just returned nil
ShutdownFalseDone(c) ==
    Returned(c, "Shutdown") /\ (~ret'[c].clear) /\ ret'[c].err = NoErr

\* C11: a good Shutdown(false) leaves every Singleton binding in the table as
\* it was (implementation, context, initialized flag), invokes no hook on a
\* Singleton, and removes every Transient and Request binding; a resolve of a
\* pair removed so, called afterwards with no bind of the pair since, fails with
\* BindingNotFoundError.
C11_ShutdownKeepsSingletons ==
    [][\A c \in Callers :
         /\ ShutdownFalseDone(c) =>
              /\ \A k \in DOMAIN bindings :
                   IF bindings[k].scope = ScopeSingleton
                   THEN k \in DOMAIN bindings' /\ bindings'[k] = bindings[k]
                   ELSE k \notin DOMAIN bindings'
              /\ DOMAIN bindings' \subseteq DOMAIN bindings
              /\ \A i \in 1..Len(ret'[c].hooks) :
                   ret'[c].snap[ret'[c].hooks[i][3]].scope # ScopeSingleton
         /\ (/\ Returns(c) /\ ret'[c].op \in ResolveOps
             /\ ret'[c].fresh /\ bound[ret'[c].key] = "Shutdown(false)") =>
              ret'[c].err = MkErr("BindingNotFoundError", ret'[c].typ)]_vars

\* Two goroutines booting the container while the second one binds, shuts
\* the container down and resets it.
MaxGateCalls == 5

GateBinds ==
    {a \in BindCalls({ScopeSingleton}, {"aF"}, {CtxPlain}, {NoPred}) : WellTyped(a)}
    \cup {a \in BindCalls({ScopeRequest}, {"b1"}, {CtxPlain}, {NoPred}) : WellTyped(a)}

NextGate ==
    \/ Bind(2, MaxGateCalls, GateBinds)
    \/ Boot(1, MaxGateCalls)
    \/ Boot(2, MaxGateCalls)
    \/ Shutdown(2, MaxGateCalls)
    \/ Reset(2, MaxGateCalls)

SpecGate == Init /\ [][NextGate]_vars

\* Two goroutines: the first boots the container, the second binds in the
\* three scopes, resolves Singletons, boots and shuts down.
SweepBinds ==
    {a \in BindCalls({ScopeSingleton}, {"a1", "aF"}, {CtxPlain}, {NoPred}) : WellTyped(a)}
    \cup {a \in BindCalls({ScopeRequest, ScopeTransient}, {"b1"}, {CtxPlain}, {NoPred}) :
            WellTyped(a)}

NextSweep ==
    \/ Bind(2, MaxConcCalls, SweepBinds)
    \/ ResolveSingleton(2, MaxConcCalls)
    \/ Boot(1, MaxConcCalls)
    \/ Boot(2, MaxConcCalls)
    \/ Shutdown(2, MaxConcCalls)

SpecSweep == Init /\ [][NextSweep]_vars

\* goroutine c takes a step of its Boot call
BootSteps(c) == (~Idle(c)) /\ Top(c).op = "Boot" /\ stack'[c] # stack[c]

\* C12: a Boot call made after a Boot call has returned nil, with no Reset and
\* no Shutdown(true) since, returns nil at once: it invokes no hook and changes
\* no binding and no instance, whatever was bound or shut down in between.
C12_BootIsOneShot ==
    [][\A c \in Callers :
         (BootSteps(c) /\ Top(c).gate0.ok /\ gate.epoch = Top(c).gate0.epoch) =>
            /\ Returns(c)
            /\ ret'[c].err = NoErr
            /\ ret'[c].hooks = <<>>
            /\ ~ret'[c].worked
            /\ bindings' = bindings
            /\ connected' = connected
            /\ bootCount' = bootCount]_vars

\* a later Boot has returned nil while a Singleton or Request binding bound
\* after the first Boot has never been booted
C12_Witness ==
    \E c \in Callers :
      /\ ret[c].op = "Boot" /\ ret[c].gate0.ok /\ ret[c].gate1.epoch = ret[c].gate0.epoch
      /\ ret[c].err = NoErr /\ Idle(c)
      /\ \E k \in DOMAIN bindings :
           bindings[k].scope \in {ScopeSingleton, ScopeRequest} /\ bootCount[k] = 0

\* the bindings Boot is to call OnBoot on: the Singletons not yet initialized
\* and the Request bindings
DueAtBoot(b) ==
    \/ b.scope = ScopeRequest
    \/ b.scope = ScopeSingleton /\ ~b.initialized

\* the keys of the bindings whose hook the call invoked, in order
HookKeys(hooks) == [i \in 1..Len(hooks) |-> hooks[i][3]]
NoRepeat(seq) == \A i, j \in 1..Len(seq) : seq[i] = seq[j] => i = j
Range(seq) == {seq[i] : i \in 1..Len(seq)}

\* C13: a Boot call that ran the loop invoked OnBoot, once each, on bindings
\* that were due (uninitialized Singleton, or Request with or without a
\* request_id) and on nothing else; if it returned nil it visited the whole
\* table and invoked OnBoot on every binding due; if a hook failed it returned
\* that hook's error and the failing hook is the last one it invoked.
C13_BootVisitsDue ==
    \A c \in Callers :
      LET r == ret[c]
          due == {k \in DOMAIN r.seen : DueAtBoot(r.seen[k])}
      IN  (r.op = "Boot" /\ r.worked) =>
            /\ NoRepeat(HookKeys(r.hooks))
            /\ Range(HookKeys(r.hooks)) \subseteq due
            /\ \A i \in 1..Len(r.hooks) :
                 r.hooks[i] = <<"OnBoot", r.seen[r.hooks[i][3]].concrete, r.hooks[i][3]>>
            /\ \A i \in 1..(Len(r.hooks) - 1) : OnBootDoes(r.hooks[i][2])[1] # "fail"
            /\ r.err = NoErr =>
                 /\ DOMAIN r.seen = DOMAIN r.snap
                 /\ Range(HookKeys(r.hooks)) = due
                 /\ \A i \in 1..Len(r.hooks) : OnBootDoes(r.hooks[i][2])[1] # "fail"
            /\ r.err # NoErr =>
                 /\ r.err = HookErr
                 /\ Len(r.hooks) > 0
                 /\ OnBootDoes(r.hooks[Len(r.hooks)][2])[1] = "fail"

\* a Boot that returned nil booted a Request binding that has no request_id
\* and passed over a Singleton already initialized
C13_Witness ==
    \E c \in Callers :
      /\ ret[c].op = "Boot" /\ ret[c].worked /\ ret[c].err = NoErr
      /\ \E k \in Range(HookKeys(ret[c].hooks)) :
           ret[c].seen[k].scope = ScopeRequest /\ MissingRequestID(ret[c].seen[k].ctx)
      /\ \E k \in DOMAIN ret[c].seen :
           ret[c].seen[k].scope = ScopeSingleton /\ ret[c].seen[k].initialized

\* C14: a Shutdown(clearSingletons) that returned nil invoked OnShutdown once
\* on every Transient and Request binding that was in the table, booted or
\* not, on every Singleton binding when clearSingletons is true and on no
\* Singleton when it is false.
C14_ShutdownHooks ==
    \A c \in Callers :
      LET r == ret[c] IN
      (r.op = "Shutdown" /\ r.err = NoErr) =>
        /\ NoRepeat(HookKeys(r.hooks))
        /\ Range(HookKeys(r.hooks)) =
             {k \in DOMAIN r.snap : r.snap[k].scope # ScopeSingleton \/ r.clear}
        /\ \A i \in 1..Len(r.hooks) :
             r.hooks[i] = <<"OnShutdown", r.snap[r.hooks[i][3]].concrete, r.hooks[i][3]>>

\* a Shutdown(false) returned nil over a table that held a Singleton and a
\* binding of another scope that was not initialized
C14_Witness ==
    \E c \in Callers :
      /\ ret[c].op = "Shutdown" /\ ret[c].err = NoErr /\ ~ret[c].clear
      /\ \E k \in DOMAIN ret[c].snap : ret[c].snap[k].scope = ScopeSingleton
      /\ \E k \in Range(HookKeys(ret[c].hooks)) : ~ret[c].snap[k].initialized

\* C15: the first Boot call made after a Reset or a Shutdown(true) that
\* returned nil returns, if no further clearing happened meanwhile, only when
\* the loop has been run again over the table as it is after the clearing: by
\* this call, or by a Boot call that was in progress beside it.
C15_GateRearmed ==
    \A c \in Callers :
      LET r == ret[c] IN
      (/\ r.op = "Boot" /\ r.gate0.epoch >= 1 /\ ~r.gate0.started
       /\ r.gate1.epoch = r.gate0.epoch) =>
         r.gate1.ran

\* goroutine 1's Boot failed, the container was cleared after that, and
\* goroutine 2's Boot, the first one since, ran a hook and returned nil
C15_Witness ==
    /\ ret[1].op = "Boot" /\ ret[1].err # NoErr
    /\ ret[2].op = "Boot" /\ ret[2].gate0.epoch > ret[1].gate1.epoch
    /\ ~ret[2].gate0.started /\ ret[2].gate1.epoch = ret[2].gate0.epoch
    /\ ret[2].worked /\ ret[2].err = NoErr /\ ret[2].hooks # <<>>

\* One goroutine binding Singletons, among them two whose OnBoot hooks resolve
\* each other, resolving them and calling Boot.  A goroutine that is in a call
\* keeps running whenever it can take a step.
HookedBinds ==
    {a \in BindCalls({ScopeSingleton}, {"aS", "bS", "a1", "b1"}, {CtxPlain}, {NoPred}) :
       WellTyped(a)}

Booting(c) == (~crashed) /\ (~Idle(c)) /\ Top(c).op = "Boot" /\ BootStep(c, Top(c))

NextHooked ==
    \/ Bind(1, MaxCalls, HookedBinds)
    \/ ResolveSingleton(1, MaxCalls)
    \/ Boot(1, MaxCalls)

SpecHooked ==
    Init /\ [][NextHooked]_vars /\ WF_vars(Running(1)) /\ WF_vars(Booting(1))

\* C16: every call made returns, Boot included when the OnBoot hooks it runs
\* resolve services: a call in progress is always followed by a state where
\* its goroutine is idle again.
C16_EveryCallReturns == \A c \in Callers : (~Idle(c)) ~> Idle(c)

\* C17: a ResolveTransient of a Transient binding with no predicate and hooks
\* that never fail, bound before the call and not rebound during it, returns
\* the bound instance without error whatever other ResolveTransient calls run
\* beside it, and that instance is booted at the moment of the return.
C17_TransientBootedAtReturn ==
    [][\A c \in Callers :
         (/\ Returns(c) /\ ret'[c].op = "ResolveTransient" /\ ret'[c].depth = 1
          /\ ret'[c].fresh /\ bound[ret'[c].key] = "b1") =>
            /\ ret'[c].err = NoErr
            /\ ret'[c].val = "b1"
            /\ connected'["b1"]]_vars

\* One goroutine binding in the three scopes working services, nil pointers
\* and nil interface values, and resolving.
NilBinds ==
    {a \in BindCalls(Scopes, {"a1", "b1", NilService, NilInterface}, {CtxPlain}, {NoPred}) :
       WellTyped(a)}

NextNilBind ==
    \/ Bind(1, MaxCalls, NilBinds)
    \/ ResolveTransient(1, MaxCalls)
    \/ ResolveSingleton(1, MaxCalls)

SpecNilBind == Init /\ [][NextNilBind]_vars

\* C18: a bind call given a nil implementation, a nil pointer or a nil
\* interface value, returns NilServiceError naming the type and leaves the
\* table as it was; the call does not panic.
C18_NilBindRejected ==
    [][\A c \in Callers :
         (Binds(c) /\ ret'[c].val \in {NilService, NilInterface}) =>
            /\ ret'[c].err = MkErr("NilServiceError", ret'[c].typ)
            /\ bindings' = bindings
            /\ ~crashed']_vars

\* Two goroutines: the first resolves in the three scopes while the second
\* binds in them and shuts the container down.
ScopedBinds ==
    {a \in BindCalls(Scopes, {"a1", "b1"}, {CtxRequest}, {NoPred}) : WellTyped(a)}

NextScoped ==
    \/ Bind(2, MaxConcCalls, ScopedBinds)
    \/ Shutdown(2, MaxConcCalls)
    \/ ResolveTransient(1, MaxConcCalls)
    \/ ResolveRequest(1, MaxConcCalls)
    \/ ResolveSingleton(1, MaxConcCalls)

SpecScoped == Init /\ [][NextScoped]_vars

ScopeOfOp(op) ==
    CASE op = "ResolveTransient" -> ScopeTransient
      [] op = "ResolveRequest" -> ScopeRequest
      [] op = "ResolveSingleton" -> ScopeSingleton

\* the table holds a binding registered in this scope for this type
HasBinding(tbl, scope, typ) ==
    \E k \in DOMAIN tbl : tbl[k].scope = scope /\ tbl[k].abstract = typ

\* goroutine c's resolve looks its binding up in the table
LooksUp(c) ==
    /\ ~Idle(c) /\ Top(c).op \in ResolveOps
    /\ Top(c).pc = (IF Top(c).op = "ResolveSingleton" THEN "start" ELSE "lookup")
    /\ stack'[c] # stack[c]

NotFound(c) == Returns(c) /\ ErrKind(ret'[c].err) = "BindingNotFoundError"

FailingBinds ==
    {a \in BindCalls(Scopes, {"aF", "a1", "bD", "bS", "bR"}, {CtxRequest}, {NoPred, "aF"}) :
       WellTyped(a) /\ (a.predicate # NoPred => a.service = "a1")}

NextFailing ==
    \/ Bind(1, MaxCalls, FailingBinds)
    \/ ResolveTransient(1, MaxCalls)
    \/ ResolveRequest(1, MaxCalls)
    \/ ResolveSingleton(1, MaxCalls)

SpecFailing == Init /\ [][NextFailing]_vars

\* goroutine c's resolve takes the step in which the OnBoot hook it invoked
\* returns an error: the hook's own, or that of the resolve the hook made
HookFails(c) ==
    /\ ~Idle(c) /\ Top(c).op \in ResolveOps /\ stack'[c] # stack[c]
    /\ \/ Top(c).pc = "boot" /\ OnBootDoes(Top(c).inst)[1] = "fail"
       \/ Top(c).pc = "hookret" /\ Top(c).sub.err # NoErr

HookCause(f) == IF f.pc = "hookret" THEN f.sub.err ELSE HookErr

\* C20: a resolve, in any of the three scopes, whose OnBoot hook returns an
\* error returns the zero value and an InitializationError naming its type
\* that wraps this error; the error of a resolve made inside the hook is
\* wrapped so at every level, up to the client's call.
C20_HookErrorWrapped ==
    [][\A c \in Callers :
         HookFails(c) =>
            /\ Returns(c)
            /\ ret'[c].val = Zero
            /\ ret'[c].err = <<[kind |-> "InitializationError", arg |-> Top(c).typ]>>
                                 \o HookCause(Top(c))]_vars

\* a client's Singleton resolve returned an InitializationError, the hook
\* having resolved a service that is not bound
C20_Witness ==
    /\ ret[1].op = "ResolveSingleton" /\ ret[1].depth = 1
    /\ Len(ret[1].err) = 2
    /\ ret[1].err[1].kind = "InitializationError"
    /\ ret[1].err[2].kind = "BindingNotFoundError"

\* Two goroutines resolving Transient and (the first) Request services, the
\* second one binding them with and without predicates: predicates that fail, that return
\* nil, that return an instance of the bound type or of another type.
PredicateBinds ==
    {a \in BindCalls({ScopeTransient, ScopeRequest}, {"a1"}, {CtxRequest},
                     {NoPred, PredErr, PredNil, "a2", "b1"}) : WellTyped(a)}

NextPredicate ==
    \/ Bind(2, MaxConcCalls, PredicateBinds)
    \/ ResolveTransient(1, MaxConcCalls)
    \/ ResolveRequest(1, MaxConcCalls)
    \/ ResolveTransient(2, MaxConcCalls)

SpecPredicate == Init /\ [][NextPredicate]_vars

\* the predicate fails, or what it returns is not of type typ
BadPredicate(predicate, typ) ==
    \/ predicate \in {PredErr, PredNil}
    \/ predicate \in Impls /\ ImplType(predicate) # typ

\* goroutine c's ResolveTransient reads a binding whose predicate will fail or
\* return the wrong type
TransientPredicateFails(c) ==
    /\ ~Idle(c) /\ Top(c).op = "ResolveTransient" /\ Top(c).pc = "lookup"
    /\ stack'[c] # stack[c]
    /\ Top(c).key \in DOMAIN bindings
    /\ BadPredicate(bindings[Top(c).key].predicate, Top(c).typ)

InvokedOnBoot(hooks) == \E i \in 1..Len(hooks) : hooks[i][1] = "OnBoot"

\* C21: a ResolveTransient of a binding whose predicate returns an error, nil
\* or an instance of another type returns the zero value and a PredicateError
\* naming the type, has invoked no OnBoot, and leaves the table as it was.
C21_PredicateError ==
    [][\A c \in Callers :
         TransientPredicateFails(c) =>
            /\ Returns(c)
            /\ ret'[c].val = Zero
            /\ ErrKind(ret'[c].err) = "PredicateError"
            /\ ret'[c].err[1].arg = Top(c).typ
            /\ ~InvokedOnBoot(ret'[c].hooks)
            /\ bindings' = bindings]_vars

\* goroutine 1's ResolveTransient of A returned PredicateError, the predicate
\* having returned an instance of B, while goroutine 2 is in a resolve
C21_Witness ==
    /\ ret[1].op = "ResolveTransient" /\ ret[1].typ = "A"
    /\ ret[1].b.predicate = "b1"
    /\ ErrKind(ret[1].err) = "PredicateError"
    /\ Idle(1) /\ ~Idle(2)

\* goroutine c's ResolveRequest reads an uninitialized binding, request_id
\* present, whose predicate returns an instance of another type
RequestPredicateMismatch(c) ==
    /\ ~Idle(c) /\ Top(c).op = "ResolveRequest" /\ Top(c).pc = "lookup"
    /\ stack'[c] # stack[c]
    /\ Top(c).key \in DOMAIN bindings
    /\ LET b == bindings[Top(c).key]
       IN  /\ ~MissingRequestID(b.ctx) /\ ~b.initialized
           /\ b.predicate \in Impls /\ ImplType(b.predicate) # Top(c).typ

\* C22: a ResolveRequest of a binding whose predicate returns an instance of
\* another type completes normally: it returns the zero value and
\* TypeMismatchError, has invoked no OnBoot, and the binding stays as it was,
\* uninitialized.
C22_RequestPredicateMismatch ==
    [][\A c \in Callers :
         RequestPredicateMismatch(c) =>
            /\ ~crashed'
            /\ Returns(c)
            /\ ret'[c].val = Zero
            /\ ErrKind(ret'[c].err) = "TypeMismatchError"
            /\ ~InvokedOnBoot(ret'[c].hooks)
            /\ bindings' = bindings]_vars

\* One goroutine binding with every kind of context (none, empty, with values
\* of its own, one of them nil, with values inherited from its parent) and
\* resolving Request services, which read request_id from the stored context.
CtxKeyed == WithValue(CtxRequest, "key", "test-value")

ContextBinds ==
    {a \in BindCalls(Scopes, {"a1"},
                     {NilCtx, CtxPlain, CtxRequest, CtxInherited, CtxNilValue, CtxKeyed},
                     {NoPred}) : WellTyped(a)}

NextContext ==
    \/ Bind(1, MaxCalls, ContextBinds)
    \/ ResolveRequest(1, MaxCalls)

SpecContext == Init /\ [][NextContext]_vars

\* C23: after a good bind the context stored with the binding holds, for every
\* key the bind-time context stores, the bind-time value, and has the bind-time
\* context's parent; bound with no context, it has the base context's pairs
\* and parent.
C23_BindTimeContextWins ==
    [][\A c \in Callers :
         (Binds(c) /\ ret'[c].err = NoErr) =>
            LET given == ret'[c].b.ctx
                stored == bindings'[ret'[c].key].ctx
            IN  IF given.isNil
                THEN /\ stored.values = BaseCtx.values
                     /\ stored.parent = BaseCtx.parent
                ELSE /\ \A k \in CtxKeys :
                          given.values[k] # Absent => stored.values[k] = given.values[k]
                     /\ \A k \in CtxKeys : Value(stored, k) = Value(given, k)
                     /\ stored.parent = given.parent]_vars

\* bindings made with a context holding two values, with a context whose
\* parent holds one, and with no context are in the table
C23_Witness ==
    \E k1, k2, k3 \in DOMAIN bindings :
      /\ bindings[k1].ctx.values["key"] = "test-value"
      /\ bindings[k1].ctx.values["request_id"] = "req-1"
      /\ bindings[k2].ctx.parent["request_id"] = "req-0"
      /\ bindings[k3].ctx = BaseCtx
      /\ bound[k3] # NeverBound /\ ret[1].op = "Bind" /\ ret[1].b.ctx.isNil

\* ------------------------------------------------------------------ contexts
\* A client making ContainerContext objects and reading them.  A context is
\* named by its position in the heap; 0 is the nil *ContainerContext.
MaxContexts == 4
CtxVals == {NilVal, "v1"}
Parents == {Background, [Background EXCEPT !["request_id"] = "req-0"]}

containerVars == <<bindings, mu, booted, bootOnce, crashed, resolutionState, connected,
                   stack, ret, calls, gen, bound, cached, bootCount, gate>>

Deref(heap, i) == IF i = 0 THEN NilCtx ELSE heap[i]

Made(name, recv, other, key, val, obj) ==
    /\ Len(contexts.heap) < MaxContexts
    /\ contexts' = [heap |-> Append(contexts.heap, obj),
                    last |-> [name |-> name, recv |-> recv, other |-> other, key |-> key,
                              val |-> val, result |-> Absent]]
    /\ UNCHANGED containerVars

NewContext ==
    \E parent \in Parents :
      Made("NewContainerContext", 0, 0, "", Absent, NewContainerContext(parent))

CtxWithValue ==
    \E i \in 1..Len(contexts.heap), key \in CtxKeys, val \in CtxVals :
      Made("WithValue", i, 0, key, val, WithValue(contexts.heap[i], key, val))

CtxMergeWith ==
    \E i \in 1..Len(contexts.heap), j \in 0..Len(contexts.heap) :
      Made("MergeWith", i, j, "", Absent,
           MergeWith(contexts.heap[i], Deref(contexts.heap, j)))

CtxValue ==
    \E i \in 0..Len(contexts.heap), key \in CtxKeys :
      /\ contexts' = [contexts EXCEPT !.last =
                        [name |-> "Value", recv |-> i, other |-> 0, key |-> key,
                         val |-> Absent, result |-> Value(Deref(contexts.heap, i), key)]]
      /\ UNCHANGED containerVars

NextCtx == NewContext \/ CtxWithValue \/ CtxMergeWith \/ CtxValue

SpecCtx == Init /\ [][NextCtx]_vars

\* the context made by the last operation
Newest == contexts.heap[Len(contexts.heap)]

\* C24: MergeWith makes a new context on the receiver's parent whose pairs are
\* the receiver's with the other's stored over them (the receiver's alone when
\* the other is nil); the contexts that existed, receiver and other among them,
\* are as they were.
C24_MergeWith ==
    [][(contexts' # contexts /\ contexts'.last.name = "MergeWith") =>
         LET heap == contexts.heap
             r == contexts'.last.recv
             o == contexts'.last.other
             new == contexts'.heap[Len(contexts'.heap)]
         IN  /\ Len(contexts'.heap) = Len(heap) + 1
             /\ \A i \in 1..Len(heap) : contexts'.heap[i] = heap[i]
             /\ ~new.isNil
             /\ new.parent = heap[r].parent
             /\ \A k \in CtxKeys :
                  new.values[k] = IF o # 0 /\ heap[o].values[k] # Absent
                                  THEN heap[o].values[k] ELSE heap[r].values[k]]_vars

\* a merge has just been made of two contexts that hold different values for
\* one key and one of which holds a key the other lacks
C24_Witness ==
    /\ contexts.last.name = "MergeWith" /\ contexts.last.other # 0
    /\ LET r == contexts.heap[contexts.last.recv]
           o == contexts.heap[contexts.last.other]
       IN  \E k \in CtxKeys :
             /\ r.values[k] # Absent /\ o.values[k] # Absent /\ r.values[k] # o.values[k]
             /\ Newest.values[k] = o.values[k]

\* C25: WithValue makes a new context on the receiver's parent that holds the
\* receiver's pairs and the given pair, the given value replacing the one the
\* key had; the receiver and every other context that existed are as they were.
C25_WithValue ==
    [][(contexts' # contexts /\ contexts'.last.name = "WithValue") =>
         LET heap == contexts.heap
             r == contexts'.last.recv
             new == contexts'.heap[Len(contexts'.heap)]
         IN  /\ Len(contexts'.heap) = Len(heap) + 1
             /\ \A i \in 1..Len(heap) : contexts'.heap[i] = heap[i]
             /\ ~new.isNil
             /\ new.parent = heap[r].parent
             /\ \A k \in CtxKeys :
                  new.values[k] = IF k = contexts'.last.key THEN contexts'.last.val
                                  ELSE heap[r].values[k]]_vars

\* a value has just been replaced, the receiver being a context from which
\* another context, holding a second pair, had been derived before
C25_Witness ==
    /\ contexts.last.name = "WithValue"
    /\ LET r == contexts.heap[contexts.last.recv]
       IN  /\ r.values[contexts.last.key] \notin {Absent, contexts.last.val}
           /\ Newest.values[contexts.last.key] = contexts.last.val
           /\ \E j \in (contexts.last.recv + 1)..(Len(contexts.heap) - 1) :
                 /\ contexts.heap[j].values[contexts.last.key] = r.values[contexts.last.key]
                 /\ \E k \in CtxKeys \ {contexts.last.key} :
                       contexts.heap[j].values[k] # Absent

\* C26: Value returns the value stored locally for the key when there is one,
\* a stored nil included; else the value the parent holds for it; and nil when
\* neither holds the key or the receiver is the nil context.
C26_Value ==
    (contexts.last.name = "Value") =>
       LET i == contexts.last.recv
           k == contexts.last.key
           res == contexts.last.result
       IN  IF i = 0 THEN res = NilVal
           ELSE LET c == contexts.heap[i]
                IN  /\ c.values[k] # Absent => res = c.values[k]
                    /\ (c.values[k] = Absent /\ c.parent[k] # Absent) => res = c.parent[k]
                    /\ (c.values[k] = Absent /\ c.parent[k] = Absent) => res = NilVal

\* Value has just returned the nil stored locally for a key whose parent holds
\* a value
C26_Witness ==
    /\ contexts.last.name = "Value" /\ contexts.last.recv # 0
    /\ LET c == contexts.heap[contexts.last.recv]
       IN  /\ c.values[contexts.last.key] = NilVal
           /\ c.parent[contexts.last.key] \notin {Absent, NilVal}
    /\ contexts.last.result = NilVal

\* Two goroutines: the first resolves services whose OnBoot hooks resolve each
\* other or fail, the second binds them, resolves too, and resets the container
\* or shuts it down, which replaces the tracker map.
TrackerBinds ==
    {a \in BindCalls({ScopeTransient}, {"aD", "bD", "aF", "b1"}, {CtxPlain}, {NoPred}) :
       WellTyped(a)}

NextTracker ==
    \/ Bind(2, MaxConcCalls, TrackerBinds)
    \/ Reset(2, MaxConcCalls)
    \/ Shutdown(2, MaxConcCalls)
    \/ ResolveTransient(1, MaxConcCalls)
    \/ ResolveSingleton(1, MaxConcCalls)
    \/ ResolveTransient(2, MaxConcCalls)

SpecTracker == Init /\ [][NextTracker]_vars

\* goroutine c is in a resolve call, its own or one a hook of its call made
Resolving(c) == \E i \in 1..Len(stack[c]) : stack[c][i].op \in ResolveOps

HooksFor(hooks, k) == {i \in 1..Len(hooks) : hooks[i][1] # "predicate" /\ hooks[i][3] = k}
LastHookFor(hooks, k) ==
    IF HooksFor(hooks, k) = {} THEN "none"
    ELSE hooks[CHOOSE i \in HooksFor(hooks, k) : \A j \in HooksFor(hooks, k) : j <= i][1]

\* C28: a binding in the table is initialized exactly when the lifecycle hook
\* invoked last for it was an OnBoot that succeeded.  Stated where the last
\* hooks are known: a goroutine working alone has made a call that returned
\* nil, and is in no call; each binding for which that call invoked a hook is
\* initialized exactly when the last of these hooks was OnBoot.
C28_InitializedIffBooted ==
    \A c \in Callers :
      (/\ Idle(c) /\ ret[c].depth = 1 /\ ret[c].err = NoErr
       /\ \A d \in Callers \ {c} : ret[d] = NoRet /\ Idle(d)) =>
         \A k \in DOMAIN bindings :
           LastHookFor(ret[c].hooks, k) # "none" =>
             (bindings[k].initialized <=> LastHookFor(ret[c].hooks, k) = "OnBoot")

\* C29: a ResolveTransient that returns without error, the binding not having
\* been rebound or removed during the call, leaves the binding initialized in
\* the table, whether the instance returned is the bound one or a predicate's.
C29_TransientMarkedInitialized ==
    [][\A c \in Callers :
         (/\ Returns(c) /\ ret'[c].op = "ResolveTransient" /\ ret'[c].err = NoErr
          /\ ret'[c].fresh) =>
            /\ ret'[c].key \in DOMAIN bindings'
            /\ bindings'[ret'[c].key].initialized]_vars

\* the step taken by c invokes OnBoot or OnShutdown from the call on top of
\* c's stack: the call's list of hooks grows by such a hook, in its frame or,
\* when the step returns from the outermost call, in its report
HooksAfter(c) ==
    IF Len(stack'[c]) >= Len(stack[c]) THEN stack'[c][Len(stack[c])].hooks
    ELSE IF Len(stack[c]) = 1 THEN ret'[c].hooks
    ELSE Top(c).hooks
InvokesHook(c) ==
    /\ ~Idle(c)
    /\ \E i \in (Len(Top(c).hooks) + 1)..Len(HooksAfter(c)) :
         HooksAfter(c)[i][1] \in {"OnBoot", "OnShutdown"}
\* c takes the step holding the binding-table lock: it holds mu across steps,
\* or the step is the section of ResolveTransient from Lock to Unlock
HoldsTableLock(c) ==
    \/ mu = c
    \/ /\ Top(c).op = "ResolveTransient" /\ Top(c).pc = "lookup"
       /\ \E i \in (Len(Top(c).hooks) + 1)..Len(HooksAfter(c)) :
            HooksAfter(c)[i][1] = "OnShutdown"

\* C30: a step of Boot or of a resolve that invokes OnBoot or OnShutdown is
\* taken while the calling goroutine does not hold the binding-table lock;
\* only Shutdown invokes hooks under the lock.
C30_HooksOutsideLock ==
    [][\A c \in Callers :
         (InvokesHook(c) /\ Top(c).op # "Shutdown") => ~HoldsTableLock(c)]_vars

\* goroutine c takes the step
Steps(c) == stack'[c] # stack[c] \/ ret'[c] # ret[c]
\* c takes the step holding mu exclusively: it holds mu across steps (Boot,
\* Shutdown), or the step is a whole section from mu.Lock to mu.Unlock (bind,
\* Reset, the store of ResolveTransient and ResolveRequest)
HoldsExclusive(c) ==
    \/ mu = c
    \/ Idle(c)
    \/ Top(c).op \in {"ResolveTransient", "ResolveRequest"} /\ Top(c).pc = "store"

\* C31: a step that changes the binding table is taken by a goroutine that
\* holds the table's exclusive lock.
C31_WritesUnderLock ==
    [][\A c \in Callers :
         (Steps(c) /\ bindings' # bindings) => HoldsExclusive(c)]_vars

\* Two goroutines resolving the same Request or Singleton service of type A,
\* the second one binding it first, with no predicate or with a predicate that
\* constructs its result.
RecheckBinds ==
    {a \in BindCalls({ScopeRequest}, {"a1"}, {CtxRequest}, {NoPred, PredNew}) : a.typ = "A"}
    \cup {a \in BindCalls({ScopeSingleton}, {"a1"}, {CtxRequest}, {NoPred}) : a.typ = "A"}

NextRecheck ==
    \/ Bind(2, MaxRaceCalls, RecheckBinds)
    \/ ResolveRequest(1, MaxRaceCalls)
    \/ ResolveRequest(2, MaxRaceCalls)
    \/ ResolveSingleton(1, MaxRaceCalls)
    \/ ResolveSingleton(2, MaxRaceCalls)

SpecRecheck == Init /\ [][NextRecheck]_vars

\* x and y are one binding, as bound or as a resolve cached it: they differ at
\* most in the flag and in the instance a predicate gave
SameBinding(x, y) ==
    /\ [x EXCEPT !.initialized = FALSE, !.concrete = ""] =
       [y EXCEPT !.initialized = FALSE, !.concrete = ""]
    /\ x.predicate = NoPred => x.concrete = y.concrete

\* goroutine c's ResolveRequest or ResolveSingleton has booted its instance and
\* takes the step that stores and returns it, the binding it read (not bound
\* anew since) having been initialized and cached by another call meanwhile
LaterFinisher(c) ==
    /\ Returns(c)
    /\ ret'[c].op \in {"ResolveRequest", "ResolveSingleton"}
    /\ ret'[c].err = NoErr
    /\ InvokedOnBoot(ret'[c].hooks)
    /\ ret'[c].key \in DOMAIN bindings
    /\ gen[ret'[c].key] = Top(c).genb
    /\ bindings[ret'[c].key].initialized
    /\ SameBinding(bindings[ret'[c].key], Top(c).b)

\* C32: a ResolveRequest or ResolveSingleton that finishes booting a binding
\* another call has initialized meanwhile leaves the cached entry as it is and
\* returns the instance cached there, with or without a predicate.
C32_LaterFinisherKeepsCache ==
    [][\A c \in Callers :
         LaterFinisher(c) =>
           /\ bindings' = bindings
           /\ ret'[c].val = bindings[ret'[c].key].concrete]_vars

\* One goroutine resolving Transient services while a second one binds
\* services, one of whose OnShutdown fails, boots and shuts the container down.
FailingShutdownBinds ==
    {a \in BindCalls({ScopeTransient, ScopeSingleton}, {"aX", "b1"}, {CtxPlain}, {NoPred}) :
       WellTyped(a)}

NextFailingShutdown ==
    \/ Bind(2, MaxConcCalls, FailingShutdownBinds)
    \/ Boot(2, MaxConcCalls)
    \/ Shutdown(2, MaxConcCalls)
    \/ ResolveTransient(1, MaxConcCalls)

SpecFailingShutdown == Init /\ [][NextFailingShutdown]_vars

\* goroutine c takes a step of a Shutdown call other than a return of nil
ShutdownGoesOn(c) ==
    /\ ~Idle(c) /\ Top(c).op = "Shutdown" /\ Steps(c)
    /\ Returns(c) => ret'[c].err # NoErr
\* the step of c's Shutdown invokes an OnShutdown that fails
ShutdownHookFails(c) ==
    /\ ~Idle(c) /\ Top(c).op = "Shutdown" /\ InvokesHook(c)
    /\ OnShutdownDoes(HooksAfter(c)[Len(HooksAfter(c))][2])[1] = "fail"

\* C33: a Shutdown one of whose OnShutdown hooks fails returns at that hook a
\* ShutdownError that wraps the hook's error, and no step of a Shutdown that
\* does not return nil changes the binding table, the boot gate or the
\* trackers, whatever clearSingletons is.
C33_FailedShutdownChangesNothing ==
    [][\A c \in Callers :
         /\ ShutdownGoesOn(c) =>
              /\ UNCHANGED <<bindings, booted, bootOnce, resolutionState>>
              /\ Returns(c) => ShutdownHookFails(c)
         /\ ShutdownHookFails(c) =>
              /\ Returns(c)
              /\ ret'[c].val = Zero
              /\ ret'[c].err = <<[kind |-> "ShutdownError",
                                  arg |-> ret'[c].hooks[Len(ret'[c].hooks)][2]]>> \o HookErr
              /\ \A i \in 1..(Len(ret'[c].hooks) - 1) :
                   OnShutdownDoes(ret'[c].hooks[i][2])[1] = "ok"]_vars

\* a Shutdown(true) failed at its second hook, after a good Boot, over a table
\* that is still whole, while goroutine 1 is resolving
C33_Witness ==
    /\ ret[2].op = "Shutdown" /\ ret[2].clear
    /\ ErrKind(ret[2].err) = "ShutdownError"
    /\ Len(ret[2].hooks) = 2
    /\ Idle(2)
    /\ DOMAIN bindings = DOMAIN ret[2].snap
    /\ bootOnce.done

\* C34: a key enters the binding table by a bind only: once a Reset or a
\* Shutdown(true) has emptied the table, no step of a resolve that was in
\* progress puts a binding back.
C34_ClearedStaysCleared ==
    [][\A k \in Keys :
         (k \notin DOMAIN bindings /\ k \in DOMAIN bindings') =>
            \E c \in Callers : Binds(c) /\ ret'[c].key = k]_vars

\* C35: once no call is in progress, each pair whose last change was a bind
\* holds the implementation and the predicate of that bind: a resolve that was
\* in progress during the bind has not put back the binding it had read.
C35_BindNotLost ==
    (~crashed /\ \A c \in Callers : Idle(c)) =>
      \A k \in DOMAIN bindings :
        bound[k] \in Impls =>
          Provides(bindings[k].concrete, bindings[k].predicate) = bound[k]

\* One goroutine binding a Transient service whose OnBoot resolves a Singleton,
\* and as that Singleton a service that boots or one that fails, and resolving.
MaxRebootCalls == 5

RebootBinds ==
    {a \in BindCalls({ScopeTransient}, {"bS"}, {CtxPlain}, {NoPred}) : WellTyped(a)}
    \cup {a \in BindCalls({ScopeSingleton}, {"a1", "aF"}, {CtxPlain}, {NoPred}) : WellTyped(a)}

NextReboot ==
    \/ Bind(1, MaxRebootCalls, RebootBinds)
    \/ ResolveTransient(1, MaxRebootCalls)
    \/ ResolveSingleton(1, MaxRebootCalls)

SpecReboot == Init /\ [][NextReboot]_vars

\* C36: when a resolve returns InitializationError, the binding it resolved,
\* not bound anew or removed during the call, is not initialized in the table:
\* a Transient binding that the call shut down and could not boot again is
\* left with initialized false.
C36_FailedBootLeavesUninitialized ==
    [][\A c \in Callers :
         (/\ Returns(c) /\ ret'[c].op \in ResolveOps
          /\ ErrKind(ret'[c].err) = "InitializationError"
          /\ ret'[c].fresh /\ ret'[c].key \in DOMAIN bindings') =>
            ~bindings'[ret'[c].key].initialized]_vars

\* a Boot call that goroutine d made since the last Reset or Shutdown(true) has
\* returned an error
BootFailed(d) ==
    /\ ret[d].op = "Boot" /\ ret[d].err # NoErr
    /\ ret[d].gate0.epoch = gate.epoch /\ ret[d].gate1.epoch = gate.epoch

\* C37: once a Boot call has returned a hook error, a Boot call made since the
\* last Reset or Shutdown(true), before or after that return, invokes no hook,
\* changes no binding and no instance, and returns nil.
C37_FailedBootIsNotRetried ==
    [][\A c \in Callers :
         (/\ BootSteps(c) /\ Top(c).gate0.epoch = gate.epoch
          /\ \E d \in Callers : BootFailed(d)) =>
            /\ ~InvokesHook(c)
            /\ bindings' = bindings
            /\ connected' = connected
            /\ Returns(c) => /\ ret'[c].err = NoErr
                             /\ ret'[c].hooks = <<>>
                             /\ ~ret'[c].worked]_vars

\* goroutine 1's Boot has returned the error of a Singleton's OnBoot, and the
\* Boot that goroutine 2 called before that return has returned nil, the
\* Singleton still being bound and not booted
C37_Witness ==
    /\ BootFailed(1) /\ Idle(1)
    /\ ret[2].op = "Boot" /\ ret[2].err = NoErr /\ Idle(2)
    /\ ret[2].gate0.epoch = gate.epoch /\ ~ret[2].gate0.ran
    /\ \E k \in DOMAIN bindings : bindings[k].concrete = "aF" /\ ~bindings[k].initialized

\* the keys goroutine c has begun resolving and not finished: those of the
\* resolve calls on its stack that are past startResolving
Started(c) ==
    {stack[c][i].key : i \in {j \in 1..Len(stack[c]) :
                                stack[c][j].op \in ResolveOps /\ stack[c][j].pc # "start"}}

\* C38: the in-flight set of a goroutine holds every key it is resolving,
\* whatever Reset or Shutdown(true) calls other goroutines have made meanwhile.
C38_TrackingSurvivesReset ==
    \A c \in Callers :
      (~crashed) => Started(c) \subseteq getResolutionState(resolutionState, c).chain

\* Two goroutines binding, resolving in the three scopes, booting, shutting
\* down and resetting, with services whose hooks make no call into the
\* container.  A goroutine that is in a call and can take its next step does
\* take it: the scheduler starves no runnable goroutine, and a goroutine
\* waiting for a lock gets it once the lock stays free.
MaxLiveCalls == 3

LiveBinds ==
    {a \in BindCalls(Scopes, {"a1"}, {CtxRequest}, {NoPred}) : WellTyped(a)}

ShuttingDown(c) ==
    (~crashed) /\ (~Idle(c)) /\ Top(c).op = "Shutdown" /\ ShutdownStep(c, Top(c))

NextLive ==
    \/ Bind(2, MaxLiveCalls, LiveBinds)
    \/ Reset(2, MaxLiveCalls)
    \/ Shutdown(2, MaxLiveCalls)
    \/ Boot(1, MaxLiveCalls)
    \/ ResolveTransient(1, MaxLiveCalls)
    \/ ResolveRequest(1, MaxLiveCalls)
    \/ ResolveSingleton(1, MaxLiveCalls)

SpecLive ==
    /\ Init /\ [][NextLive]_vars
    /\ \A c \in Callers : WF_vars(Running(c)) /\ WF_vars(Booting(c)) /\ WF_vars(ShuttingDown(c))

FirstBoot(c) ==
    /\ ~Idle(c) /\ Top(c).op = "ResolveTransient" /\ Top(c).pc = "boot"
    /\ stack'[c] # stack[c]
    /\ gen[Top(c).key] = Top(c).genb
    /\ \A i \in 1..Len(Top(c).hooks) : Top(c).hooks[i][1] # "OnShutdown"

\* C40: a ResolveTransient that read its binding as not initialized invokes
\* OnBoot on the bound instance, with no OnShutdown before it, whether or not
\* another call has booted the same binding since it was bound: the first boot
\* of a Transient binding excludes no other caller's.
C40_FirstBootNotExclusive ==
    [][\A c \in Callers :
         FirstBoot(c) =>
           /\ InvokesHook(c)
           /\ HooksAfter(c)[Len(HooksAfter(c))] = <<"OnBoot", Top(c).inst, Top(c).key>>
           /\ \A i \in 1..Len(HooksAfter(c)) : HooksAfter(c)[i][1] # "OnShutdown"]_vars

\* both goroutines have resolved the same Transient binding, bound once: each
\* read it as not initialized and invoked OnBoot alone, so the instance was
\* booted twice and never shut down
C40_Witness ==
    /\ Idle(1) /\ Idle(2)
    /\ ret[1].op = "ResolveTransient" /\ ret[2].op = "ResolveTransient"
    /\ ret[1].key = ret[2].key /\ ret[1].key \in Keys
    /\ ret[1].err = NoErr /\ ret[2].err = NoErr
    /\ ret[1].fresh /\ ret[2].fresh
    /\ ret[1].hooks = << <<"OnBoot", "b1", ret[1].key>> >>
    /\ ret[2].hooks = ret[1].hooks
    /\ bootCount[ret[1].key] = 2

====
